---- MODULE Spec2Model ----
(***************************************************************************)
(* A model of the gbzd emulator's timing-coupled pipeline: the CPU run     *)
(* loop (interrupt servicing, HALT handling, timer ticks), the memory map  *)
(* with its trapped registers, the PPU mode machine and the dot-debt       *)
(* scheduler of main().                                                    *)
(*                                                                         *)
(* Bytes and words are naturals kept in 0..255 and 0..65535.  The opcode   *)
(* bytes the CPU fetches come from the cartridge ROM, which is an input:   *)
(* each fetch draws an instruction from a small set.  Pixel rendering and  *)
(* the display buffers' contents are not part of the model.                *)
(***************************************************************************)
EXTENDS Integers, Sequences, FiniteSets, TLC

VARIABLES
    cpu,          \* Cpu: registers PC, SP, A and the ime/halted/stopped fields
    memory,       \* MemoryMap: io_registers, hram, ie and the timer it owns
    ppu,          \* Ppu: current_mode, current_dot, front_buffer_base, frame_ready
    debt,         \* main: the timing balance between CPU and PPU, in dots
    cpu_locked,   \* main: the last CPU step reported no dots
    cpu_last,     \* history: what the last call of Cpu::run did
    prog_dots,    \* history: dots of CPU time (instructions, halted idling) so far
    ppu_hist,     \* history: dots the PPU reported per mode stay and per frame
    ppu_runs,     \* history: calls of Ppu::run the bounded scheduler has made
    frame_shown,  \* history: what frame_is_ready returned in main's last iteration
    apu           \* Apu: divider_previous, divider_counter

vars == <<cpu, memory, ppu, debt, cpu_locked, cpu_last, prog_dots, ppu_hist,
          ppu_runs, frame_shown, apu>>

\* ------------------------------------------------------------------ bounds

\* The runs considered spend at most this many dots of CPU time (instructions
\* and halted idling) before the ROM's program reaches an illegal opcode, on
\* which the CPU spins.
ProgramDots == 40

\* The same budget for the programs run under the scheduler of main().
MainProgramDots == 12

\* The runs of the scheduler checked for progress make this many calls of
\* Ppu::run.
MaxPpuRuns == 64

\* The runs of the timer as a unit tick it this many times (one tick a dot).
TimerDots == 16

\* The dots of program the APU is followed through
ApuDots == 48

\* ------------------------------------------------------------- bit helpers

Bit(x, i) == (x \div (2 ^ i)) % 2

SetBit(x, i) == IF Bit(x, i) = 1 THEN x ELSE x + 2 ^ i

ClearBit(x, i) == IF Bit(x, i) = 1 THEN x - 2 ^ i ELSE x

\* (a & b) > 0 on bytes
AndNonZero(a, b) == \E i \in 0..7 : Bit(a, i) = 1 /\ Bit(b, i) = 1

LowByte(w) == w % 256

HighByte(w) == (w \div 256) % 256

\* ------------------------------------------------------------------ memory

IF_REG_ADDR == 65295    \* 0xFF0F
IE_REG_ADDR == 65535    \* 0xFFFF
LCDC_ADDRESS == 65344   \* 0xFF40
STAT_ADDRESS == 65345   \* 0xFF41
LY_ADDRESS == 65348     \* 0xFF44
LYC_ADDRESS == 65349    \* 0xFF45
VRAM_START == 32768     \* 0x8000
EXRAM_START == 40960    \* 0xA000
WRAM_START == 49152     \* 0xC000
WRAM_S_START == 53248   \* 0xD000
ECHORAM_START == 57344  \* 0xE000
OAM_START == 65024      \* 0xFE00
UNUSABLE_START == 65184 \* 0xFEA0
IOREGS_START == 65280   \* 0xFF00
HRAM_START == 65408     \* 0xFF80
IE_START == 65535       \* 0xFFFF

\* The bytes of the I/O region the programs considered touch (the region
\* holds 0x80): the registers, and the region's own bytes at 0xFF03..0xFF07,
\* which byte accesses of DIV, TIMA, TMA and TAC never reach.
IoAddrs == {IF_REG_ADDR, LCDC_ADDRESS, STAT_ADDRESS, LY_ADDRESS, LYC_ADDRESS,
            65318}
               \cup 65283..65287

\* A region's byte, 0 where nothing was written yet (hram is allocated zeroed).
RegionRead(region, a) == IF a \in DOMAIN region THEN region[a] ELSE 0

RegionWrite(region, a, v) == (a :> v) @@ region

\* Timer::new
TimerNew == [div |-> 0, counter |-> 0, modulo |-> 0, control |-> 4,
             overflowing |-> FALSE]

\* ------------------------------------------------------------- the joypad

\* Joypad::new, with the last_button_state of InputHandler::new beside it
JoypadNew == [button_values |-> 255, mode |-> "Buttons",
              last_button_state |-> 255]

\* A variant that gives the low nibble in Buttons mode and the high one in
\* DPad mode
JoypadReadNibblesSwapped(j) ==
    CASE j.mode = "Buttons" -> 32 + (j.button_values % 16)
      [] j.mode = "DPad" -> 16 + ((j.button_values \div 16) % 16)
      [] OTHER -> 15

\* Joypad::read
JoypadRead(j) ==
    CASE j.mode = "Buttons" -> 32 + ((j.button_values \div 16) % 16)
      [] j.mode = "DPad" -> 16 + (j.button_values % 16)
      [] OTHER -> 15

\* The write of FF00 in MemoryMap::write: the mode the value's high nibble
\* selects
JoypadSetMode(j, v) ==
    CASE v \div 16 = 0 -> [j EXCEPT !.mode = "Unselected"]
      [] v \div 16 = 1 -> [j EXCEPT !.mode = "DPad"]
      [] v \div 16 = 2 -> [j EXCEPT !.mode = "Buttons"]
      [] OTHER -> j

\* ---------------------------------------------------------- the cartridge

\* What a read gives when the index is outside the buffer read: the slice
\* panics and the emulator ends
PANIC == -1

\* The byte of the ROM file at offset i
RomByte(i) == (i + i \div 16384) % 256

\* Cart::load_from_file for a file of rom_len bytes whose header names the
\* mapper and a RAM of ram_len bytes (filled with 0xFF)
CartLoaded(mapper, rom_len, ram_len) ==
    [mapper |-> mapper, rom_len |-> rom_len, ram_len |-> ram_len,
     active_rom_bank |-> 1, ram_enabled |-> FALSE, active_ram_bank |-> 0,
     banking_mode |-> "Simple", ram_banks |-> [x \in {} |-> 0]]

\* read_from_buffer_extended::<Byte> on the ROM
RomAt(c, i) == IF i < c.rom_len THEN RomByte(i) ELSE PANIC

\* read_from_buffer_extended::<Byte> on the cartridge RAM
RamAt(c, i) ==
    IF i >= c.ram_len THEN PANIC
    ELSE IF i \in DOMAIN c.ram_banks THEN c.ram_banks[i] ELSE 255

\* The index MBC1 uses in its RAM for the address a of 0xA000..0xBFFF
MBC1RamIndex(c, a) ==
    IF c.banking_mode = "Simple" THEN a % 8192
    ELSE (a % 8192) + c.active_ram_bank * 8192

\* MBC1::read::<Byte>
MBC1Read(c, a) ==
    IF a < 16384
    THEN IF c.banking_mode = "Simple" THEN RomAt(c, a)
         ELSE RomAt(c, a + c.active_ram_bank * 524288)
    ELSE IF a < VRAM_START
    THEN LET bank == (IF c.active_rom_bank > 1 THEN c.active_rom_bank ELSE 1) % 32
         IN RomAt(c, (a % 16384) + bank * 16384 + c.active_ram_bank * 524288)
    ELSE IF c.ram_enabled THEN RamAt(c, MBC1RamIndex(c, a))
    ELSE 255

\* write_to_buffer_extended::<Byte> on the RAM of an MBC1 goes outside it
MBC1WritePanics(c, a) ==
    /\ a >= EXRAM_START
    /\ c.ram_enabled
    /\ MBC1RamIndex(c, a) >= c.ram_len

\* MBC1::write::<Byte>, where it does not panic
MBC1Write(c, v, a) ==
    IF a >= EXRAM_START
    THEN IF ~c.ram_enabled THEN c
         ELSE [c EXCEPT !.ram_banks = RegionWrite(c.ram_banks,
                                                  MBC1RamIndex(c, a), v)]
    ELSE IF a < 8192 THEN [c EXCEPT !.ram_enabled = (v = 10)]
    ELSE IF a < 16384 THEN [c EXCEPT !.active_rom_bank = v % 32]
    ELSE IF a < 24576 THEN [c EXCEPT !.active_ram_bank = v % 4]
    ELSE [c EXCEPT !.banking_mode = IF v % 2 = 1 THEN "Advanced"
                                    ELSE "Simple"]

\* Cart::read::<Byte> for the mappers NoMBC and MBC1
CartRead(c, a) ==
    IF c.mapper = "NoMBC" THEN RomAt(c, a) ELSE MBC1Read(c, a)

\* Cart::write::<Byte> for the mappers NoMBC and MBC1
CartWrite(c, v, a) ==
    IF c.mapper = "NoMBC" THEN c ELSE MBC1Write(c, v, a)

\* ------------------------------------------------------ the APU's registers

\* ApuRegisters::new
ApuRegistersNew ==
    [nr10 |-> 0, nr11 |-> 0, nr12 |-> 0, nr13 |-> 0, nr14 |-> 0,
     nr21 |-> 0, nr22 |-> 0, nr23 |-> 0, nr24 |-> 0,
     nr30 |-> 0, nr31 |-> 0, nr32 |-> 0, nr33 |-> 0, nr34 |-> 0,
     nr52 |-> 0,
     ch1_to_trigger |-> FALSE, ch2_to_trigger |-> FALSE,
     ch3_to_trigger |-> FALSE,
     ch1_period_to_update |-> FALSE, ch2_period_to_update |-> FALSE,
     ch3_period_to_update |-> FALSE,
     ch1_length_timer_to_update |-> FALSE,
     ch2_length_timer_to_update |-> FALSE,
     ch3_length_timer_to_update |-> FALSE]

\* ------------------------------------------------------------ the memory map

\* The cartridge of the runs that do not look at it: 32 KiB of ROM, no mapper
BootCart == CartLoaded("NoMBC", VRAM_START, 0)

\* MemoryMap::allocate, then the write of 0x90 to LY in Cpu::new
MemoryBoot ==
    [io    |-> [a \in IoAddrs |-> IF a = LY_ADDRESS THEN 144 ELSE 255],
     hram  |-> [x \in {} |-> 0],
     ie    |-> 0,
     timer |-> TimerNew,
     div_reset |-> FALSE,
     joypad |-> JoypadNew,
     apu_state |-> ApuRegistersNew,
     cart  |-> BootCart,
     vram  |-> [x \in {} |-> 0],
     work_ram |-> [x \in {} |-> 0],
     work_ram_swappable |-> [x \in {} |-> 0],
     echo_ram |-> [x \in {} |-> 0],
     oam   |-> [x \in {} |-> 0],
     unusable |-> [x \in {} |-> 0],
     panicked |-> FALSE]

\* MemoryMap::read::<Byte>
MemRead(m, a) ==
    IF a = IE_START THEN m.ie
    ELSE IF a >= HRAM_START THEN RegionRead(m.hram, a)
    ELSE IF a = IOREGS_START THEN JoypadRead(m.joypad)
    ELSE IF a = 65284 THEN HighByte(m.timer.div)
    ELSE IF a = 65285 THEN m.timer.counter
    ELSE IF a = 65286 THEN m.timer.modulo
    ELSE IF a = 65287 THEN m.timer.control
    ELSE IF a >= IOREGS_START THEN m.io[a]
    ELSE IF a >= UNUSABLE_START THEN RegionRead(m.unusable, a)
    ELSE IF a >= OAM_START THEN RegionRead(m.oam, a)
    ELSE IF a >= ECHORAM_START THEN RegionRead(m.echo_ram, a)
    ELSE IF a >= WRAM_S_START THEN RegionRead(m.work_ram_swappable, a)
    ELSE IF a >= WRAM_START THEN RegionRead(m.work_ram, a)
    ELSE IF a >= EXRAM_START THEN CartRead(m.cart, a)
    ELSE IF a >= VRAM_START THEN RegionRead(m.vram, a)
    ELSE CartRead(m.cart, a)

\* MemoryMap::write::<Byte> below the I/O registers
MemWriteLow(m, v, a) ==
    IF a >= UNUSABLE_START
    THEN [m EXCEPT !.unusable = RegionWrite(m.unusable, a, v)]
    ELSE IF a >= OAM_START THEN [m EXCEPT !.oam = RegionWrite(m.oam, a, v)]
    ELSE IF a >= ECHORAM_START
    THEN [m EXCEPT !.echo_ram = RegionWrite(m.echo_ram, a, v)]
    ELSE IF a >= WRAM_S_START
    THEN [m EXCEPT !.work_ram_swappable =
                       RegionWrite(m.work_ram_swappable, a, v)]
    ELSE IF a >= WRAM_START
    THEN [m EXCEPT !.work_ram = RegionWrite(m.work_ram, a, v)]
    ELSE IF a >= VRAM_START /\ a < EXRAM_START
    THEN [m EXCEPT !.vram = RegionWrite(m.vram, a, v)]
    ELSE IF m.cart.mapper = "MBC1" /\ MBC1WritePanics(m.cart, a)
    THEN [m EXCEPT !.panicked = TRUE]
    ELSE [m EXCEPT !.cart = CartWrite(m.cart, v, a)]

DMA_BYTES == 160

RECURSIVE DmaCopy(_, _, _, _)
\* The iterations lo..hi-1 of the loop of MemoryMap::dma, in order: the first
\* half of them, then the second half on the memory the first half leaves
\* (the test on m1 makes TLC evaluate the first half before the second)
DmaCopy(m, dma_base, lo, hi) ==
    IF hi = lo + 1
    THEN MemWriteLow(m, MemRead(m, dma_base + lo), OAM_START + lo)
    ELSE LET mid == lo + (hi - lo) \div 2
             m1  == DmaCopy(m, dma_base, lo, mid)
         IN IF m1.panicked \in BOOLEAN
            THEN DmaCopy(m1, dma_base, mid, hi) ELSE m1

\* A variant of the DMA that starts one byte into the source page
DmaFromSecondByte(m, source_upper_byte) ==
    DmaCopy(m, source_upper_byte * 256 + 1, 0, DMA_BYTES)

\* MemoryMap::dma
Dma(m, source_upper_byte) ==
    DmaCopy(m, source_upper_byte * 256, 0, DMA_BYTES)

\* MemoryMap::write::<Byte> to the I/O registers that no unit takes
IoWrite(m, v, a) ==
    IF a = IOREGS_START THEN [m EXCEPT !.joypad = JoypadSetMode(m.joypad, v)]
    ELSE IF a = 65281 THEN m
    ELSE IF a = 65350 THEN Dma(m, v)
    ELSE [m EXCEPT !.io[a] = v]

\* A variant whose write of DIV clears the exposed high byte only
MemWriteClearsDivHigh(m, v, a) ==
    IF a = IE_START THEN [m EXCEPT !.ie = v]
    ELSE IF a >= HRAM_START THEN [m EXCEPT !.hram = RegionWrite(m.hram, a, v)]
    ELSE IF a < IOREGS_START THEN MemWriteLow(m, v, a)
    ELSE IF a = 65284 THEN [m EXCEPT !.timer.div = m.timer.div % 256]
    ELSE IF a = 65285 THEN [m EXCEPT !.timer.counter = v]
    ELSE IF a = 65286 THEN [m EXCEPT !.timer.modulo = v]
    ELSE IF a = 65287 THEN [m EXCEPT !.timer.control = v % 8]
    ELSE IoWrite(m, v, a)

\* MemoryMap::write::<Byte>
MemWrite(m, v, a) ==
    IF a = IE_START THEN [m EXCEPT !.ie = v]
    ELSE IF a >= HRAM_START THEN [m EXCEPT !.hram = RegionWrite(m.hram, a, v)]
    ELSE IF a < IOREGS_START THEN MemWriteLow(m, v, a)
    ELSE IF a = 65284 THEN [m EXCEPT !.timer.div = 0]
    ELSE IF a = 65285 THEN [m EXCEPT !.timer.counter = v]
    ELSE IF a = 65286 THEN [m EXCEPT !.timer.modulo = v]
    ELSE IF a = 65287 THEN [m EXCEPT !.timer.control = v % 8]
    ELSE IoWrite(m, v, a)

\* MemoryMap::read::<Word>: the address alone picks the region or the
\* trapped register; a region gives two of its bytes, little-endian, and a
\* trapped register its byte promoted to a word
MemReadWord(m, a) ==
    IF a >= HRAM_START
    THEN RegionRead(m.hram, a) + 256 * RegionRead(m.hram, a + 1)
    ELSE IF a \in 65284..65287 THEN MemRead(m, a)
    ELSE m.io[a] + 256 * m.io[a + 1]

\* MemoryMap::write::<Word>: a region takes the two bytes, a trapped register
\* the word demoted to a byte, which is its high byte
MemWriteWord(m, w, a) ==
    IF a >= HRAM_START
    THEN [m EXCEPT !.hram = RegionWrite(RegionWrite(m.hram, a, LowByte(w)),
                                        a + 1, HighByte(w))]
    ELSE IF a \in 65284..65287 THEN MemWrite(m, HighByte(w), a)
    ELSE [m EXCEPT !.io[a] = LowByte(w), !.io[a + 1] = HighByte(w)]

\* ------------------------------------------------------------------- timer

\* A variant that selects the bits in rising order
ControlMaskBitInOrder(control) ==
    CASE control % 4 = 0 -> 3
      [] control % 4 = 1 -> 5
      [] control % 4 = 2 -> 7
      [] control % 4 = 3 -> 9

\* Timer::control_mask, as the number of the divider bit it selects
ControlMaskBit(control) ==
    CASE control % 4 = 0 -> 9
      [] control % 4 = 1 -> 3
      [] control % 4 = 2 -> 5
      [] control % 4 = 3 -> 7

\* Timer::tick: the timer after one tick and whether the interrupt fires
TimerTick(t) ==
    LET pre_tick  == t.div
        post_tick == (t.div + 1) % 65536
        k         == ControlMaskBit(t.control)
        fire      == t.overflowing
        t1        == IF t.overflowing
                     THEN [t EXCEPT !.counter = t.modulo, !.overflowing = FALSE]
                     ELSE t
        \* timer_mask & delta & pre_tick: bit k changed and was 1 before
        to_tick   == Bit(pre_tick, k) = 1 /\ Bit(post_tick, k) = 0
        t2        == IF to_tick /\ Bit(t1.control, 2) = 1
                     THEN IF t1.counter = 255
                          THEN [t1 EXCEPT !.overflowing = TRUE, !.counter = 0]
                          ELSE [t1 EXCEPT !.counter = t1.counter + 1]
                     ELSE t1
    IN [timer |-> [t2 EXCEPT !.div = post_tick], fire |-> fire]

\* A variant that raises IF bit 2 on the tick that overflows
TickTimerFiresAtOverflow(m) ==
    LET r  == TimerTick(m.timer)
        m1 == [m EXCEPT !.timer = r.timer]
    IN IF r.timer.overflowing
       THEN [m1 EXCEPT !.io[IF_REG_ADDR] = SetBit(m1.io[IF_REG_ADDR], 2)]
       ELSE m1

\* Cpu::tick_timer: one tick, raising IF bit 2 when the timer says so
TickTimer(m) ==
    LET r  == TimerTick(m.timer)
        m1 == [m EXCEPT !.timer = r.timer]
    IN IF r.fire
       THEN [m1 EXCEPT !.io[IF_REG_ADDR] = SetBit(m1.io[IF_REG_ADDR], 2)]
       ELSE m1

RECURSIVE TickTimerTimes(_, _)
\* (the test on m1 makes TLC evaluate each tick before it goes on to the next)
TickTimerTimes(m, n) ==
    IF n = 0 THEN m
    ELSE LET m1 == TickTimer(m)
         IN IF m1.timer.div >= 0 THEN TickTimerTimes(m1, n - 1) ELSE m1

\* --------------------------------------------------------------------- APU

LENGTH_TIMER_EXPIRY == 64

NR52_ADDR == 65318

\* ApuRegisters::write_nr10 .. write_nr52, reg naming the register written
ApuRegistersWrite(s, reg, value) ==
    CASE reg = "nr10" -> [s EXCEPT !.nr10 = value]
      [] reg = "nr11" -> [s EXCEPT !.nr11 = value,
                                   !.ch1_length_timer_to_update = TRUE]
      [] reg = "nr12" -> [s EXCEPT !.nr12 = value]
      [] reg = "nr13" -> [s EXCEPT !.nr13 = value,
                                   !.ch1_period_to_update = TRUE]
      [] reg = "nr14" -> [s EXCEPT !.nr14 = value,
                                   !.ch1_to_trigger = (Bit(value, 7) = 1),
                                   !.ch1_period_to_update = TRUE]
      [] reg = "nr21" -> [s EXCEPT !.nr21 = value,
                                   !.ch2_length_timer_to_update = TRUE]
      [] reg = "nr22" -> [s EXCEPT !.nr22 = value]
      [] reg = "nr23" -> [s EXCEPT !.nr23 = value,
                                   !.ch2_period_to_update = TRUE]
      [] reg = "nr24" -> [s EXCEPT !.nr24 = value,
                                   !.ch2_to_trigger = (Bit(value, 7) = 1),
                                   !.ch2_period_to_update = TRUE]
      [] reg = "nr30" -> [s EXCEPT !.nr30 = value]
      [] reg = "nr31" -> [s EXCEPT !.nr31 = value,
                                   !.ch3_length_timer_to_update = TRUE]
      [] reg = "nr32" -> [s EXCEPT !.nr32 = value]
      [] reg = "nr33" -> [s EXCEPT !.nr33 = value,
                                   !.ch3_period_to_update = TRUE]
      [] reg = "nr34" -> [s EXCEPT !.nr34 = value,
                                   !.ch3_to_trigger = (Bit(value, 7) = 1),
                                   !.ch3_period_to_update = TRUE]
      [] reg = "nr52" -> [s EXCEPT !.nr52 = value]

\* The register of the APU behind each address of 0xFF10..0xFF26
ApuRegisterAt ==
    (65296 :> "nr10") @@ (65297 :> "nr11") @@ (65298 :> "nr12")
        @@ (65299 :> "nr13") @@ (65300 :> "nr14")
        @@ (65302 :> "nr21") @@ (65303 :> "nr22") @@ (65304 :> "nr23")
        @@ (65305 :> "nr24")
        @@ (65306 :> "nr30") @@ (65307 :> "nr31") @@ (65308 :> "nr32")
        @@ (65309 :> "nr33") @@ (65310 :> "nr34")
        @@ (NR52_ADDR :> "nr52")

\* The write of an APU register also reaches the register's write handler,
\* which marks the latches the APU looks for
NotifyApuState(m, v, a) ==
    [m EXCEPT !.apu_state = ApuRegistersWrite(@, ApuRegisterAt[a], v)]

\* ApuRegisters::channel_1_period, channel_2_period and channel_3_period,
\* from the channel's period-low and period-high registers
ChannelPeriod(low, high) == low + 256 * (high % 8)

\* Apu::new (the copy of the wave RAM, which the APU reloads on every update
\* and only its samples use, is left out)
ApuNew ==
    [channel_1_volume_current |-> 0, channel_1_length_timer_current |-> 0,
     channel_1_sweep_pace_current |-> 0, channel_1_period_current |-> 0,
     channel_1_active |-> FALSE,
     channel_2_volume_current |-> 0, channel_2_length_timer_current |-> 0,
     channel_2_period_current |-> 0, channel_2_active |-> FALSE,
     channel_3_volume_shift |-> 0, channel_3_length_timer_current |-> 0,
     channel_3_period_current |-> 0, channel_3_active |-> FALSE,
     divider_previous |-> 0, divider_counter |-> 0]

\* The length counter after a trigger: reloaded from the register's low six
\* bits if it had expired or is 0
LengthReload(current, nrx1) ==
    IF current >= LENGTH_TIMER_EXPIRY \/ current = 0 THEN nrx1 % 64
    ELSE current

\* Apu::catchup_registers, channel 1's trigger and period update
CatchupChannel1(a, s) ==
    LET period == ChannelPeriod(s.nr13, s.nr14)
        t == IF s.ch1_to_trigger
             THEN [a EXCEPT
                     !.channel_1_volume_current = s.nr12 \div 16,
                     !.channel_1_period_current = period,
                     !.channel_1_length_timer_current =
                         LengthReload(@, s.nr11),
                     !.channel_1_sweep_pace_current = (s.nr10 \div 16) % 8,
                     !.channel_1_active = TRUE]
             ELSE a
    IN IF s.ch1_period_to_update
       THEN [t EXCEPT !.channel_1_period_current = period]
       ELSE t

\* Apu::catchup_registers, channel 2's trigger and period update
CatchupChannel2(a, s) ==
    LET period == ChannelPeriod(s.nr23, s.nr24)
        t == IF s.ch2_to_trigger
             THEN [a EXCEPT
                     !.channel_2_volume_current = s.nr22 \div 16,
                     !.channel_2_period_current = period,
                     !.channel_2_length_timer_current =
                         LengthReload(@, s.nr21),
                     !.channel_2_active = TRUE]
             ELSE a
    IN IF s.ch2_period_to_update
       THEN [t EXCEPT !.channel_2_period_current = period]
       ELSE t

\* The shift channel 3 takes from its output level
VolumeShift(nr32) == IF nr32 \div 32 = 0 THEN 4 ELSE nr32 \div 32 - 1

\* Apu::catchup_registers, channel 3's trigger and period update, and the
\* volume shift it takes on every update
CatchupChannel3(a, s) ==
    LET period == ChannelPeriod(s.nr33, s.nr34)
        t == IF s.ch3_to_trigger
             THEN [a EXCEPT
                     !.channel_3_period_current = period,
                     !.channel_3_length_timer_current =
                         LengthReload(@, s.nr31),
                     !.channel_3_active = (Bit(s.nr30, 7) = 1)]
             ELSE a
        u == IF s.ch3_period_to_update
             THEN [t EXCEPT !.channel_3_period_current = period]
             ELSE t
    IN [u EXCEPT !.channel_3_volume_shift = VolumeShift(s.nr32)]

\* The latches Apu::catchup_registers clears on its way
LatchesCleared(s) ==
    [s EXCEPT !.ch1_to_trigger = FALSE, !.ch1_period_to_update = FALSE,
              !.ch2_to_trigger = FALSE, !.ch2_period_to_update = FALSE,
              !.ch3_to_trigger = FALSE, !.ch3_period_to_update = FALSE]

\* The write of DIV also leaves the notice of the reset the APU looks for
NotifyDivReset(m) == [m EXCEPT !.div_reset = TRUE]

\* update_div_apu_counter in Apu::catchup_registers: the DIV-APU counter
\* after comparing prev_divider with the divider read now (the counter is a
\* u32 that wraps after 2^32 ticks, which no run considered here counts)
UpdateDivApuCounter(counter, prev_divider, current_divider) ==
    IF Bit(prev_divider, 4) = 1 /\ Bit(current_divider, 4) = 0
    THEN counter + 1
    ELSE counter

RECURSIVE CatchUp(_, _)
\* The loop of Apu::catchup_registers that steps divider_previous up to the
\* divider read now
CatchUp(a, current_divider) ==
    IF a.divider_previous = current_divider THEN a
    ELSE CatchUp([a EXCEPT
                    !.divider_previous = (a.divider_previous + 1) % 256,
                    !.divider_counter =
                        UpdateDivApuCounter(a.divider_counter,
                                            a.divider_previous,
                                            current_divider)],
                 current_divider)

\* Apu::catchup_registers, the part that follows the divider: the APU and
\* the memory after it
CatchupDivider(a, m) ==
    LET current_divider == MemRead(m, 65284)
    IN IF m.div_reset
       THEN [apu |-> [a EXCEPT
                        !.divider_previous = current_divider,
                        !.divider_counter =
                            UpdateDivApuCounter(a.divider_counter,
                                                a.divider_previous,
                                                current_divider)],
             mem |-> [m EXCEPT !.div_reset = FALSE]]
       ELSE [apu |-> CatchUp(a, current_divider), mem |-> m]

\* Apu::catchup_registers, channel 1's period sweep on a DIV-APU tick, with
\* the period written back to NR13 and NR14: the APU and the registers
\* after it
PeriodSweep(a, s) ==
    LET pace   == a.channel_1_sweep_pace_current
        period == a.channel_1_period_current
        delta  == period \div (2 ^ (s.nr10 % 8))
        b == IF period \div 256 >= 2047 \/ period = 0
             THEN [a EXCEPT !.channel_1_active = FALSE]
             ELSE IF Bit(s.nr10, 3) = 1
             THEN [a EXCEPT !.channel_1_period_current = period - delta]
             ELSE [a EXCEPT !.channel_1_period_current = period + delta]
        new_nr13 == b.channel_1_period_current % 256
        new_nr14 == (s.nr14 \div 64) * 64
                       + ((b.channel_1_period_current \div 256) % 8)
    IN IF a.channel_1_active /\ pace > 0
             /\ a.divider_counter % (pace * 4) = 0
       THEN [apu |-> b,
             state |-> ApuRegistersWrite(ApuRegistersWrite(s, "nr13", new_nr13),
                                         "nr14", new_nr14)]
       ELSE [apu |-> a, state |-> s]

\* Apu::catchup_registers, the length timers on every second DIV-APU tick
LengthTimers(a, s) ==
    LET Stepped(enabled, current) ==
            IF enabled /\ current < LENGTH_TIMER_EXPIRY THEN current + 1
            ELSE current
        l1 == Stepped(Bit(s.nr14, 6) = 1, a.channel_1_length_timer_current)
        l2 == Stepped(Bit(s.nr24, 6) = 1, a.channel_2_length_timer_current)
        l3 == Stepped(Bit(s.nr34, 6) = 1, a.channel_3_length_timer_current)
        Expires(before, after) ==
            after # before /\ after = LENGTH_TIMER_EXPIRY
    IN IF a.divider_counter % 2 # 0 THEN a
       ELSE [a EXCEPT
               !.channel_1_length_timer_current = l1,
               !.channel_1_active =
                   @ /\ ~Expires(a.channel_1_length_timer_current, l1),
               !.channel_2_length_timer_current = l2,
               !.channel_2_active =
                   @ /\ ~Expires(a.channel_2_length_timer_current, l2),
               !.channel_3_length_timer_current = l3,
               !.channel_3_active =
                   @ /\ ~Expires(a.channel_3_length_timer_current, l3)]

\* Apu::catchup_registers, the volume envelopes of channels 1 and 2
VolumeSweeps(a, s) ==
    LET Swept(nrx2, volume) ==
            IF nrx2 % 8 > 0 /\ a.divider_counter % ((nrx2 % 8) * 8) = 0
            THEN IF Bit(nrx2, 3) = 1 /\ volume < 15 THEN volume + 1
                 ELSE IF Bit(nrx2, 3) = 0 /\ volume > 0 THEN volume - 1
                 ELSE volume
            ELSE volume
    IN [a EXCEPT
          !.channel_1_volume_current = Swept(s.nr12, @),
          !.channel_2_volume_current = Swept(s.nr22, @)]

\* Apu::catchup_registers after the period sweep w: the length timers, the
\* volume envelopes, and the registers the sweep wrote
AfterSweep(w, m) ==
    [apu |-> VolumeSweeps(LengthTimers(w.apu, w.state), w.state),
     mem |-> [m EXCEPT !.apu_state = w.state]]

\* Apu::catchup_registers after d, the catch-up with the divider: the timed
\* events if the DIV-APU counter has moved from what it was in a
TimedEvents(a, d) ==
    IF d.apu.divider_counter = a.divider_counter THEN d
    ELSE AfterSweep(PeriodSweep(d.apu, d.mem.apu_state), d.mem)

\* Apu::catchup_registers: the APU and the memory after it
CatchupRegisters(a, m) ==
    IF Bit(MemRead(m, NR52_ADDR), 7) = 0
    THEN [apu |-> [a EXCEPT !.channel_1_active = FALSE,
                            !.channel_2_active = FALSE,
                            !.channel_3_active = FALSE],
          mem |-> m]
    ELSE TimedEvents(a,
             CatchupDivider(
                 CatchupChannel3(
                     CatchupChannel2(CatchupChannel1(a, m.apu_state),
                                     m.apu_state),
                     m.apu_state),
                 [m EXCEPT !.apu_state = LatchesCleared(m.apu_state)]))

\* --------------------------------------------------------------------- CPU

\* Cpu::new: PC=0x0100, SP=0xFFFE, A=0x01, F=0xB0, HL=0x014D
CpuBoot == [pc |-> 256, sp |-> 65534, a |-> 1, f |-> 176, hl |-> 333,
            ime |-> FALSE, halted |-> FALSE, stopped |-> FALSE]

\* Flags, as the bit of F's high nibble each one names
FLAG_C == 0
FLAG_H == 1
FLAG_N == 2
FLAG_Z == 3

\* RegisterBank::write_byte(RegF, value)
WriteByteF(c, value) == [c EXCEPT !.f = value]

\* RegisterBank::read_byte(RegF)
ReadByteF(c) == c.f

\* RegisterBank::set_flag_on
SetFlagOn(c, flag) == WriteByteF(c, SetBit(ReadByteF(c), 4 + flag))

\* RegisterBank::set_flag_off
SetFlagOff(c, flag) == WriteByteF(c, ClearBit(ReadByteF(c), 4 + flag))

\* RegisterBank::check_flag
CheckFlag(c, flag) == Bit(ReadByteF(c), 4 + flag) = 1

\* RegisterBank::set_flag
SetFlag(c, flag, value) ==
    IF value THEN SetFlagOn(c, flag) ELSE SetFlagOff(c, flag)

NOP == 0
SCF == 55
CCF == 63
STOP == 16
LD_A_D8 == 62
HALT == 118
RET == 201
CALL == 205
ILLEGAL == 211
RETI == 217
LDH_A8_A == 224
DI == 243
EI == 251
POP_AF == 241
PUSH_AF == 245

\* Cpu::push(RegPC)
Push(c, m) ==
    LET new_stack_pointer == c.sp - 2
    IN [cpu |-> [c EXCEPT !.sp = new_stack_pointer],
        mem |-> MemWriteWord(m, c.pc, new_stack_pointer)]

\* Cpu::pop(RegPC)
Pop(c, m) == [c EXCEPT !.pc = MemReadWord(m, c.sp), !.sp = c.sp + 2]

\* Cpu::push(RegAF): the word is A in the high byte and F in the low one
PushAF(c, m) ==
    LET new_stack_pointer == c.sp - 2
    IN [cpu |-> [c EXCEPT !.sp = new_stack_pointer],
        mem |-> MemWriteWord(m, 256 * c.a + c.f, new_stack_pointer)]

\* A variant of the pop of AF that keeps the word as it is
PopAFUnmasked(c, m) ==
    [c EXCEPT !.a = HighByte(MemReadWord(m, c.sp)),
              !.f = LowByte(MemReadWord(m, c.sp)),
              !.sp = c.sp + 2]

\* Cpu::pop(RegAF): contents & 0xFFF0
PopAF(c, m) ==
    LET contents == MemReadWord(m, c.sp)
        masked   == contents - (contents % 16)
    IN [c EXCEPT !.a = HighByte(masked), !.f = LowByte(masked),
                 !.sp = c.sp + 2]

\* Cpu::scf
Scf(c) == SetFlagOn(c, FLAG_C)

\* Cpu::ccf
Ccf(c) ==
    LET carry == CheckFlag(c, FLAG_C)
    IN SetFlag(SetFlagOff(SetFlagOff(c, FLAG_N), FLAG_H), FLAG_C, ~carry)

\* Cpu::call(address, ConditionCodes::NA)
Call(c, m, address) ==
    LET p == Push(c, m)
    IN [cpu |-> [p.cpu EXCEPT !.pc = address], mem |-> p.mem]

\* ByteExt::interpret_as_signed
InterpretAsSigned(b) == IF b >= 128 THEN b - 256 ELSE b

\* RegisterBank::check_condition
CheckCondition(c, condition) ==
    CASE condition = "NA" -> TRUE
      [] condition = "NC" -> ~CheckFlag(c, FLAG_C)
      [] condition = "NZ" -> ~CheckFlag(c, FLAG_Z)
      [] condition = "C"  -> CheckFlag(c, FLAG_C)
      [] condition = "Z"  -> CheckFlag(c, FLAG_Z)

\* Cpu::jp with an immediate address
Jp(c, address, condition) ==
    IF CheckCondition(c, condition)
    THEN [cpu |-> [c EXCEPT !.pc = address], branched |-> TRUE]
    ELSE [cpu |-> c, branched |-> FALSE]

\* Cpu::jr: checked_add_signed(..).unwrap() panics when the address leaves
\* the 16 bits
Jr(c, offset, condition) ==
    LET current_address == c.pc
        address == current_address + offset
    IN IF ~CheckCondition(c, condition)
       THEN [cpu |-> c, branched |-> FALSE, panics |-> FALSE]
       ELSE IF address < 0 \/ address > 65535
       THEN [cpu |-> c, branched |-> TRUE, panics |-> TRUE]
       ELSE [cpu |-> [c EXCEPT !.sp = address], branched |-> TRUE,
             panics |-> FALSE]

\* Cpu::call with a condition
CallIf(c, m, address, condition) ==
    IF CheckCondition(c, condition)
    THEN [cpu |-> Call(c, m, address).cpu, mem |-> Call(c, m, address).mem,
          branched |-> TRUE]
    ELSE [cpu |-> c, mem |-> m, branched |-> FALSE]

\* Cpu::ret with a condition
RetIf(c, m, condition) ==
    IF CheckCondition(c, condition)
    THEN [cpu |-> Pop(c, m), branched |-> TRUE]
    ELSE [cpu |-> c, branched |-> FALSE]

\* Cpu::step, its arms for JR, JP cc, CALL cc and RET cc: the operation and
\* the condition code each opcode passes to it
BranchArms ==
    (24 :> [op |-> "jr", condition |-> "NA"])
 @@ (32 :> [op |-> "jr", condition |-> "NZ"])
 @@ (40 :> [op |-> "jr", condition |-> "Z"])
 @@ (48 :> [op |-> "jr", condition |-> "NC"])
 @@ (56 :> [op |-> "jr", condition |-> "C"])
 @@ (192 :> [op |-> "ret", condition |-> "NZ"])
 @@ (200 :> [op |-> "ret", condition |-> "Z"])
 @@ (208 :> [op |-> "ret", condition |-> "NC"])
 @@ (216 :> [op |-> "ret", condition |-> "C"])
 @@ (194 :> [op |-> "jp", condition |-> "NZ"])
 @@ (202 :> [op |-> "jp", condition |-> "Z"])
 @@ (210 :> [op |-> "jp", condition |-> "NC"])
 @@ (218 :> [op |-> "jp", condition |-> "Z"])
 @@ (196 :> [op |-> "call", condition |-> "NZ"])
 @@ (204 :> [op |-> "call", condition |-> "Z"])
 @@ (212 :> [op |-> "call", condition |-> "NC"])
 @@ (220 :> [op |-> "call", condition |-> "C"])

\* Cpu::step on a branch: step_pc past the instruction, the operation, and
\* the cost by whether it branched (JR with no condition always costs 3)
StepBranch(c, m, ins) ==
    LET arm == BranchArms[ins.code]
    IN CASE arm.op = "jr" ->
               LET r == Jr([c EXCEPT !.pc = c.pc + 2],
                           InterpretAsSigned(ins.arg), arm.condition)
               IN [cpu |-> r.cpu,
                   mem |-> IF r.panics THEN [m EXCEPT !.panicked = TRUE]
                           ELSE m,
                   cost |-> IF r.branched THEN 3 ELSE 2]
         [] arm.op = "jp" ->
               LET r == Jp([c EXCEPT !.pc = c.pc + 3], ins.arg, arm.condition)
               IN [cpu |-> r.cpu, mem |-> m,
                   cost |-> IF r.branched THEN 4 ELSE 3]
         [] arm.op = "call" ->
               LET r == CallIf([c EXCEPT !.pc = c.pc + 3], m, ins.arg,
                               arm.condition)
               IN [cpu |-> r.cpu, mem |-> r.mem,
                   cost |-> IF r.branched THEN 6 ELSE 3]
         [] arm.op = "ret" ->
               LET r == RetIf([c EXCEPT !.pc = c.pc + 1], m, arm.condition)
               IN [cpu |-> r.cpu, mem |-> m,
                   cost |-> IF r.branched THEN 5 ELSE 2]

\* The SideEffect Cpu::step reports for an opcode: step returns the bare
\* cost for every opcode (HALT, STOP, DI, EI are TODOs, RETI is RET).
StepSideEffect(code) == "None"

\* Cpu::step on the fetched instruction: the CPU, the memory and the cost
Step(c, m, ins) ==
    CASE ins.code \in {NOP, STOP, HALT, DI, EI} ->
            [cpu |-> [c EXCEPT !.pc = c.pc + 1], mem |-> m, cost |-> 1]
      [] ins.code = LD_A_D8 ->
            [cpu |-> [c EXCEPT !.pc = c.pc + 2, !.a = ins.arg],
             mem |-> m, cost |-> 2]
      [] ins.code = LDH_A8_A ->
            [cpu |-> [c EXCEPT !.pc = c.pc + 2],
             mem |-> MemWrite(m, c.a, IOREGS_START + ins.arg), cost |-> 3]
      [] ins.code \in {RET, RETI} ->
            [cpu |-> Pop([c EXCEPT !.pc = c.pc + 1], m), mem |-> m, cost |-> 4]
      [] ins.code = CALL ->
            LET r == Call([c EXCEPT !.pc = c.pc + 3], m, ins.arg)
            IN [cpu |-> r.cpu, mem |-> r.mem, cost |-> 6]
      [] ins.code = SCF ->
            [cpu |-> Scf([c EXCEPT !.pc = c.pc + 1]), mem |-> m, cost |-> 1]
      [] ins.code = CCF ->
            [cpu |-> Ccf([c EXCEPT !.pc = c.pc + 1]), mem |-> m, cost |-> 1]
      [] ins.code = POP_AF ->
            [cpu |-> PopAF([c EXCEPT !.pc = c.pc + 1], m), mem |-> m,
             cost |-> 3]
      [] ins.code = PUSH_AF ->
            LET r == PushAF([c EXCEPT !.pc = c.pc + 1], m)
            IN [cpu |-> r.cpu, mem |-> r.mem, cost |-> 4]
      [] ins.code \in DOMAIN BranchArms -> StepBranch(c, m, ins)
      [] OTHER -> [cpu |-> c, mem |-> m, cost |-> 0]

\* The bit service_interrupt picks: the lowest of IF bits 0..3, else bit 4
ServicedBit(reg_if) ==
    IF Bit(reg_if, 0) = 1 THEN 0
    ELSE IF Bit(reg_if, 1) = 1 THEN 1
    ELSE IF Bit(reg_if, 2) = 1 THEN 2
    ELSE IF Bit(reg_if, 3) = 1 THEN 3
    ELSE 4

\* The ISR locations 0x40, 0x48, 0x50, 0x58, 0x60
IsrLocation(k) == 64 + 8 * k

\* Cpu::service_interrupt
ServiceInterrupt(c, m) ==
    LET reg_if == MemRead(m, IF_REG_ADDR)
        reg_ie == MemRead(m, IE_REG_ADDR)
        has_serviceable_interrupts == c.ime /\ AndNonZero(reg_ie, reg_if)
        k      == ServicedBit(reg_if)
        m1     == MemWrite(m, ClearBit(reg_if, k), IF_REG_ADDR)
        r      == Call([c EXCEPT !.ime = FALSE], m1, IsrLocation(k))
    IN IF has_serviceable_interrupts
       THEN [serviced |-> TRUE, cpu |-> r.cpu, mem |-> r.mem]
       ELSE [serviced |-> FALSE, cpu |-> c, mem |-> m]

\* A variant of the halted branch that leaves Halted only for an interrupt
\* that IE enables
RunHaltedWakeOnEnabled(c, m) ==
    IF c.halted /\ ~c.ime
          /\ AndNonZero(MemRead(m, IE_REG_ADDR), MemRead(m, IF_REG_ADDR))
    THEN [cpu |-> [c EXCEPT !.halted = FALSE], mem |-> m,
          cost |-> 0, kind |-> "wake"]
    ELSE [cpu |-> c, mem |-> TickTimerTimes(m, 4), cost |-> 0, kind |-> "idle"]

\* Cpu::run, its last branch: the CPU is halted or stopped and no interrupt
\* was serviced
RunHalted(c, m) ==
    IF c.halted /\ ~c.ime /\ MemRead(m, IF_REG_ADDR) > 0
    THEN [cpu |-> [c EXCEPT !.halted = FALSE], mem |-> m,
          cost |-> 0, kind |-> "wake"]
    ELSE [cpu |-> c, mem |-> TickTimerTimes(m, 4), cost |-> 0, kind |-> "idle"]

\* Cpu::run, its middle branch: fetch and execute `ins`, apply the side
\* effect step reports, tick the timer through the cycles spent
RunStep(c, m, ins) ==
    LET \* both latches are locals of run, false at every call
        enable_ime_next_frame == FALSE
        enable_ime_this_frame == enable_ime_next_frame
        s      == Step(c, m, ins)
        effect == StepSideEffect(ins.code)
        c1     == CASE effect \in {"Halt", "Stop"} -> [s.cpu EXCEPT !.halted = TRUE]
                    [] effect = "EnableInterrupt" -> [s.cpu EXCEPT !.ime = TRUE]
                    [] effect = "DisableInterrupt" -> [s.cpu EXCEPT !.ime = FALSE]
                    [] OTHER -> s.cpu
        c2     == IF enable_ime_this_frame THEN [c1 EXCEPT !.ime = TRUE] ELSE c1
    IN [cpu |-> c2, mem |-> TickTimerTimes(s.mem, 4 * s.cost),
        cost |-> s.cost, kind |-> "exec"]

\* Cpu::run with `ins` at PC: the CPU, the memory, the cost returned and
\* which of its paths ran
Run(c, m, ins) ==
    LET svc == ServiceInterrupt(c, m)
    IN IF svc.serviced
       THEN [cpu |-> [svc.cpu EXCEPT !.halted = FALSE, !.stopped = FALSE],
             mem |-> svc.mem, cost |-> 0, kind |-> "service"]
       ELSE IF ~c.halted /\ ~c.stopped
       THEN RunStep(c, m, ins)
       ELSE RunHalted(c, m)

\* --------------------------------------------------------------------- PPU

DOTS_PER_LINE == 456
VBLANK_START_DOTS == 65664     \* DOTS_PER_LINE * SCREEN_HEIGHT
DOT_MAX == 70224               \* VBLANK_START_DOTS + 10 * DOTS_PER_LINE
OAM_SCAN_TIME == 80
PIXEL_DRAW_TIME == 172
HBLANK_TIME == 204
PIXEL_DRAW_END_DOTS == 252     \* OAM_SCAN_TIME + PIXEL_DRAW_TIME
DISPLAY_BUFFER_SIZE == 23040   \* SCREEN_WIDTH * SCREEN_HEIGHT

\* RenderMode::mode_number
ModeNumber(mode) ==
    CASE mode = "OAMScan" -> 2
      [] mode = "PixelDraw" -> 3
      [] mode = "HBlank" -> 0
      [] mode = "VBlank" -> 1

\* Ppu::new: the tail end of VBlank
PpuBoot == [current_mode |-> "VBlank", current_dot |-> DOT_MAX,
            front_buffer_base |-> 0, frame_ready |-> FALSE]

\* A variant of the granules in which an OAM scan step takes three dots
GranuleCoarseOam(mode) ==
    CASE mode = "OAMScan" -> 3
      [] mode = "PixelDraw" -> PIXEL_DRAW_TIME \div 4
      [] mode = "HBlank" -> HBLANK_TIME \div 17
      [] mode = "VBlank" -> DOTS_PER_LINE \div 19

\* The dots one call of Ppu::run spends in each mode
Granule(mode) ==
    CASE mode = "OAMScan" -> OAM_SCAN_TIME \div 40
      [] mode = "PixelDraw" -> PIXEL_DRAW_TIME \div 4
      [] mode = "HBlank" -> HBLANK_TIME \div 17
      [] mode = "VBlank" -> DOTS_PER_LINE \div 19

\* The mode update_render_state moves to, the dot it leaves current_dot at
\* and the edges it notes, with current_dot already advanced
NextMode(mode, dot) ==
    LET in_line == dot % DOTS_PER_LINE
        stay    == [mode |-> mode, dot |-> dot, start_oam_scan |-> FALSE,
                    start_hblank |-> FALSE, start_vblank |-> FALSE]
    IN CASE mode = "OAMScan" ->
               IF in_line >= OAM_SCAN_TIME
               THEN [stay EXCEPT !.mode = "PixelDraw"] ELSE stay
         [] mode = "PixelDraw" ->
               IF in_line >= PIXEL_DRAW_END_DOTS
               THEN [stay EXCEPT !.mode = "HBlank", !.start_hblank = TRUE]
               ELSE stay
         [] mode = "HBlank" ->
               IF in_line = 0
               THEN IF dot >= VBLANK_START_DOTS
                    THEN [stay EXCEPT !.mode = "VBlank", !.start_vblank = TRUE]
                    ELSE [stay EXCEPT !.mode = "OAMScan", !.start_oam_scan = TRUE]
               ELSE stay
         [] mode = "VBlank" ->
               IF dot >= DOT_MAX
               THEN [stay EXCEPT !.mode = "OAMScan", !.dot = 0,
                                 !.start_oam_scan = TRUE]
               ELSE stay

\* A variant of the interrupt flags in which VBlank's and OAM scan's STAT
\* enable bits are taken for one another
RaisedFlagsSwappedEnables(reg_if, stat, n, ly_eq_lyc) ==
    LET stat_irq == \/ n.start_oam_scan /\ Bit(stat, 4) = 1
                    \/ ly_eq_lyc /\ Bit(stat, 6) = 1
                    \/ n.start_vblank /\ Bit(stat, 5) = 1
                    \/ n.start_hblank /\ Bit(stat, 3) = 1
        if1      == IF stat_irq THEN SetBit(reg_if, 1) ELSE reg_if
    IN IF n.start_vblank THEN SetBit(if1, 0) ELSE if1

\* update_render_state's interrupt flags: IF with the STAT bit set for an
\* enabled edge and the VBlank bit set at the start of VBlank
RaisedFlags(reg_if, stat, n, ly_eq_lyc) ==
    LET stat_irq == \/ n.start_oam_scan /\ Bit(stat, 5) = 1
                    \/ ly_eq_lyc /\ Bit(stat, 6) = 1
                    \/ n.start_vblank /\ Bit(stat, 4) = 1
                    \/ n.start_hblank /\ Bit(stat, 3) = 1
        if1      == IF stat_irq THEN SetBit(reg_if, 1) ELSE reg_if
    IN IF n.start_vblank THEN SetBit(if1, 0) ELSE if1

\* Ppu::update_render_state, with current_dot already advanced to `dot`
UpdateRenderState(p, m, dot) ==
    LET \* ly is taken from the dot count before VBlank's reset of it
        ly        == (dot \div DOTS_PER_LINE) % 256
        lyc       == MemRead(m, LYC_ADDRESS)
        ly_eq_lyc == (dot % DOTS_PER_LINE) = 0 /\ ly = lyc
        n         == NextMode(p.current_mode, dot)
        m1        == MemWrite(m, ly, LY_ADDRESS)
        old_stat  == MemRead(m1, STAT_ADDRESS)
        stat      == (old_stat - (old_stat % 8))
                       + (IF lyc = ly THEN 4 ELSE 0) + ModeNumber(n.mode)
        m2        == MemWrite(m1, stat, STAT_ADDRESS)
        reg_if    == MemRead(m2, IF_REG_ADDR)
        if2       == RaisedFlags(reg_if, stat, n, ly_eq_lyc)
    IN [ppu |-> [p EXCEPT !.current_mode = n.mode, !.current_dot = n.dot],
        mem |-> MemWrite(m2, if2, IF_REG_ADDR)]

\* Ppu::swap_buffers: front and back (the other half) change places and the
\* frame is flagged ready
SwapBuffers(p) ==
    [p EXCEPT !.front_buffer_base = IF p.front_buffer_base = 0
                                    THEN DISPLAY_BUFFER_SIZE ELSE 0,
              !.frame_ready = TRUE]

\* A variant that swaps on the first call made in VBlank
SwapDueAtVBlankEntry(p) ==
    p.current_mode = "VBlank" /\ p.current_dot = VBLANK_START_DOTS

\* Ppu::run's condition for the swap: the call that starts VBlank's last line
SwapDue(p) ==
    p.current_mode = "VBlank" /\ p.current_dot = DOT_MAX - DOTS_PER_LINE

\* Ppu::run: the PPU, the memory and the dots spent
PpuRun(p, m) ==
    LET \* LCDC bit 7 is read; the branch that would act on it is commented out
        running == Bit(MemRead(m, LCDC_ADDRESS), 7) = 1
        p1   == IF SwapDue(p) THEN SwapBuffers(p) ELSE p
        dots == Granule(p.current_mode)
        u    == UpdateRenderState(p1, m, p.current_dot + dots)
    IN [ppu |-> u.ppu, mem |-> u.mem, dots |-> dots]

\* Ppu::frame_is_ready: the flag is taken and cleared
FrameIsReady(p) == [ready |-> p.frame_ready,
                    ppu |-> [p EXCEPT !.frame_ready = FALSE]]

\* ------------------------------------------------------------ the programs

\* Operand bytes of LD A,d8
ByteVals == {0, 2, 3, 224}

\* Addresses (offsets from 0xFF00) LDH (a8),A stores to: IF and IE
CpuStoreOffsets == {15, 255}

CallTargets == {256}

NoArg(codes) == {[code |-> k, arg |-> 0] : k \in codes}

WithArg(code, args) == {[code |-> code, arg |-> x] : x \in args}

CpuProgram ==
    NoArg({NOP, STOP, HALT, DI, EI, RET, RETI})
        \cup WithArg(LD_A_D8, ByteVals)
        \cup WithArg(LDH_A8_A, CpuStoreOffsets)
        \cup WithArg(CALL, CallTargets)

IllegalOp == [code |-> ILLEGAL, arg |-> 0]

\* What the ROM may hold at PC: within the budget of dots any instruction
\* of the program whose cost fits (a return only with a return address on
\* the stack), and past it the illegal opcode.  The illegal opcode leaves PC
\* where it is, so the fetch after it reads the same byte again.
Fetchable(program, budget) ==
    {ins \in program :
        /\ ~(cpu_last.kind = "exec" /\ cpu_last.code = ILLEGAL)
        /\ prog_dots + 4 * Step(cpu, memory, ins).cost <= budget
        /\ ins.code \in {RET, RETI} => cpu.sp < 65534
        /\ ins.code = POP_AF => cpu.sp + 1 < IE_START
        /\ ins.code = PUSH_AF => cpu.sp - 2 >= HRAM_START}
      \cup {IllegalOp}

\* A program that works on the flags and moves AF through the stack, which
\* it keeps in high RAM
FlagProgram == NoArg({SCF, CCF, POP_AF, PUSH_AF})

\* Stores the programs run under the scheduler make: LCDC, STAT, LYC and IE
MainStoreOffsets == {64, 65, 69, 255}

MainProgram == WithArg(LDH_A8_A, MainStoreOffsets)

\* ----------------------------------------------------------------- history

NoRun == [kind |-> "boot", code |-> -1]

LastRun(r, ins) ==
    [kind |-> r.kind, code |-> IF r.kind = "exec" THEN ins.code ELSE -1]

NoHist == [span_mode |-> "none", span_line |-> 0, span_dots |-> 0,
           mode_dots |-> 0, frame_dots |-> -1, frame_last |-> -1]

\* The history after a call of Ppu::run that took the PPU from p to r.ppu:
\* the stay in a mode that just ended (its mode, line and dots), the dots of
\* the stay under way, the dots since line 0 last started and the dots
\* between the last two starts of line 0 (-1 while there is none)
HistAfter(h, p, r) ==
    LET changed == r.ppu.current_mode # p.current_mode
        line0   == p.current_mode = "VBlank" /\ r.ppu.current_mode = "OAMScan"
        counted == IF h.frame_dots < 0 THEN -1 ELSE h.frame_dots + r.dots
    IN [span_mode  |-> IF changed THEN p.current_mode ELSE h.span_mode,
        span_line  |-> IF changed THEN p.current_dot \div DOTS_PER_LINE
                       ELSE h.span_line,
        span_dots  |-> IF changed THEN h.mode_dots + r.dots ELSE h.span_dots,
        mode_dots  |-> IF changed THEN 0 ELSE h.mode_dots + r.dots,
        frame_dots |-> IF line0 THEN 0 ELSE counted,
        frame_last |-> IF line0 THEN counted ELSE h.frame_last]

\* ----------------------------------------------------------------- actions

\* One call of Cpu::run on its own, with `ins` the instruction the ROM
\* holds at PC
CpuRun(ins) ==
    \E r \in {Run(cpu, memory, ins)} :
       /\ r.kind = "idle" => prog_dots + 4 <= ProgramDots
       /\ cpu' = r.cpu
       /\ memory' = r.mem
       /\ cpu_last' = LastRun(r, ins)
       /\ prog_dots' = CASE r.kind = "exec" -> prog_dots + 4 * r.cost
                          [] r.kind = "idle" -> prog_dots + 4
                          [] OTHER -> prog_dots
       /\ UNCHANGED <<ppu, debt, cpu_locked, ppu_hist, ppu_runs,
                      frame_shown, apu>>

\* One call of Ppu::run on its own
PpuStep ==
    LET r == PpuRun(ppu, memory)
    IN /\ ppu' = r.ppu
       /\ memory' = r.mem
       /\ ppu_hist' = HistAfter(ppu_hist, ppu, r)
       /\ UNCHANGED <<cpu, debt, cpu_locked, cpu_last, prog_dots, ppu_runs,
                      frame_shown, apu>>

\* One call of Ppu::run on its own, without the history of its dots
PpuOnly ==
    LET r == PpuRun(ppu, memory)
    IN /\ ppu' = r.ppu
       /\ memory' = r.mem
       /\ UNCHANGED <<cpu, debt, cpu_locked, cpu_last, prog_dots, ppu_hist,
                      ppu_runs, frame_shown, apu>>

\* The CPU's side of the interrupt flags seen from the PPU: a write of 0 to
\* IF
AckIrq ==
    /\ MemRead(memory, IF_REG_ADDR) # 0
    /\ memory' = MemWrite(memory, 0, IF_REG_ADDR)
    /\ UNCHANGED <<cpu, ppu, debt, cpu_locked, cpu_last, prog_dots, ppu_hist,
                   ppu_runs, frame_shown, apu>>

\* Cpu::run ticks the timer four times a machine cycle from a divider of 0,
\* and a write of DIV zeroes it: between instructions the divider is a
\* multiple of 4
BetweenInstructions == memory.timer.div % 4 = 0

\* One call of Cpu::tick_timer
TimerTickStep ==
    /\ prog_dots < TimerDots
    /\ memory' = TickTimer(memory)
    /\ prog_dots' = prog_dots + 1
    /\ cpu_last' = [kind |-> "tick", code |-> -1]
    /\ UNCHANGED <<cpu, ppu, debt, cpu_locked, ppu_hist, ppu_runs,
                   frame_shown, apu>>

\* A CPU write of v to the register at a
TimerWrite(a, v) ==
    /\ BetweenInstructions
    /\ memory' = IF a = 65284 THEN NotifyDivReset(MemWrite(memory, v, a))
                 ELSE MemWrite(memory, v, a)
    /\ cpu_last' = [kind |-> "write", code |-> a]
    /\ UNCHANGED <<cpu, ppu, debt, cpu_locked, prog_dots, ppu_hist, ppu_runs,
                   frame_shown, apu>>

\* main's call of Apu::update_waves after a call of Cpu::run
ApuUpdate ==
    LET u == CatchupRegisters(apu, memory)
    IN /\ BetweenInstructions
       /\ apu' = u.apu
       /\ memory' = u.mem
       /\ cpu_last' = [kind |-> "apu", code |-> -1]
       /\ UNCHANGED <<cpu, ppu, debt, cpu_locked, prog_dots, ppu_hist,
                      ppu_runs, frame_shown>>

\* A store of the word w at a, as LD (a16),SP makes it
WordWrite(a, w) ==
    /\ memory' = MemWriteWord(memory, w, a)
    /\ cpu_last' = [kind |-> "word", code |-> a, value |-> w]
    /\ UNCHANGED <<cpu, ppu, debt, cpu_locked, prog_dots, ppu_hist, ppu_runs,
                   frame_shown, apu>>

\* main's loop, the CPU's turn: debt <= 0 and the CPU is not locked
CpuTurn(ins) ==
    \E r \in {Run(cpu, memory, ins)} :
    \E u \in {CatchupRegisters(apu, r.mem)} :
    LET dots_elapsed == 4 * r.cost
    IN /\ debt <= 0 /\ ~cpu_locked
       /\ cpu' = r.cpu
       /\ memory' = u.mem
       /\ apu' = u.apu
       /\ debt' = debt + dots_elapsed
       /\ cpu_locked' = (dots_elapsed = 0)
       /\ ppu' = FrameIsReady(ppu).ppu
       /\ frame_shown' = FrameIsReady(ppu).ready
       /\ cpu_last' = LastRun(r, ins)
       /\ prog_dots' = prog_dots + dots_elapsed
       /\ UNCHANGED ppu_hist

\* A variant of the locked branch that unlocks the CPU without running the
\* PPU
PpuForcedSkipsPpu ==
    /\ cpu_locked
    /\ cpu_locked' = FALSE
    /\ UNCHANGED <<cpu, memory, ppu, debt, cpu_last, prog_dots, ppu_hist,
                   frame_shown, apu>>

\* main's loop, the PPU's forced granule after a CPU step without dots
PpuForced ==
    LET r == PpuRun(ppu, memory)
    IN /\ cpu_locked
       /\ ppu' = FrameIsReady(r.ppu).ppu
       /\ frame_shown' = FrameIsReady(r.ppu).ready
       /\ memory' = r.mem
       /\ cpu_locked' = FALSE
       /\ UNCHANGED <<cpu, debt, cpu_last, prog_dots, ppu_hist, apu>>

\* A variant of the PPU's turn that also runs with nothing owed
PpuTurnAtZero ==
    LET r == PpuRun(ppu, memory)
    IN /\ debt >= 0 /\ ~cpu_locked
       /\ ppu' = FrameIsReady(r.ppu).ppu
       /\ frame_shown' = FrameIsReady(r.ppu).ready
       /\ memory' = r.mem
       /\ debt' = debt - r.dots
       /\ UNCHANGED <<cpu, cpu_locked, cpu_last, prog_dots, ppu_hist, apu>>

\* main's loop, the PPU's turn: it pays the debt down
PpuTurn ==
    LET r == PpuRun(ppu, memory)
    IN /\ debt > 0 /\ ~cpu_locked
       /\ ppu' = FrameIsReady(r.ppu).ppu
       /\ frame_shown' = FrameIsReady(r.ppu).ready
       /\ memory' = r.mem
       /\ debt' = debt - r.dots
       /\ UNCHANGED <<cpu, cpu_locked, cpu_last, prog_dots, ppu_hist, apu>>

\* ---------------------------------------------------------- specifications

\* The state main() builds before its loop
Init ==
    /\ cpu = CpuBoot
    /\ memory = MemoryBoot
    /\ ppu = PpuBoot
    /\ debt = 0
    /\ cpu_locked = FALSE
    /\ cpu_last = NoRun
    /\ prog_dots = 0
    /\ ppu_hist = NoHist
    /\ ppu_runs = 0
    /\ frame_shown = FALSE
    /\ apu = ApuNew

Next ==
    \/ \E ins \in Fetchable(MainProgram, MainProgramDots) :
          CpuTurn(ins) /\ UNCHANGED ppu_runs
    \/ PpuForced /\ UNCHANGED ppu_runs
    \/ PpuTurn /\ UNCHANGED ppu_runs

\* The emulator from boot
Spec == Init /\ [][Next]_vars

\* The CPU as a unit: ime and halted are public fields of Cpu, and the
\* interrupt flags are whatever the peripherals have raised so far.
IfInitVals == {0, 255}

InitCpu ==
    /\ \E i \in BOOLEAN, h \in BOOLEAN :
          cpu = [CpuBoot EXCEPT !.ime = i, !.halted = h]
    /\ \E f \in IfInitVals : memory = [MemoryBoot EXCEPT !.io[IF_REG_ADDR] = f]
    /\ ppu = PpuBoot
    /\ debt = 0
    /\ cpu_locked = FALSE
    /\ cpu_last = NoRun
    /\ prog_dots = 0
    /\ ppu_hist = NoHist
    /\ ppu_runs = 0
    /\ frame_shown = FALSE
    /\ apu = ApuNew

NextCpu == \E ins \in Fetchable(CpuProgram, ProgramDots) : CpuRun(ins)

SpecCpu == InitCpu /\ [][NextCpu]_vars

\* The PPU as a unit
NextPpu == PpuStep

SpecPpu == Init /\ [][NextPpu]_vars

\* The PPU as a unit with the registers a program sets up for it: the STAT
\* interrupt enables (with LYC out of LY's range), or the LYC interrupt alone
\* with a line to compare to; IF starts cleared and is cleared again at any
\* time.
StatEnableVals == {0, 8, 16, 32}

LycVals == {0, 1, 153}

PpuRegs(stat, lyc) ==
    [MemoryBoot EXCEPT !.io[STAT_ADDRESS] = stat, !.io[LYC_ADDRESS] = lyc,
                       !.io[IF_REG_ADDR] = 0]

InitPpuIrq ==
    /\ \/ \E e \in StatEnableVals : memory = PpuRegs(e, 255)
       \/ \E l \in LycVals : memory = PpuRegs(64, l)
    /\ cpu = CpuBoot
    /\ ppu = PpuBoot
    /\ debt = 0
    /\ cpu_locked = FALSE
    /\ cpu_last = NoRun
    /\ prog_dots = 0
    /\ ppu_hist = NoHist
    /\ ppu_runs = 0
    /\ frame_shown = FALSE
    /\ apu = ApuNew

NextPpuIrq == PpuOnly \/ AckIrq

SpecPpuIrq == InitPpuIrq /\ [][NextPpuIrq]_vars

\* The CPU working on its flags: the program has pointed SP into high RAM,
\* at a word it stored there.
FLAG_STACK == HRAM_START + 4

StackWords == {15, 4783, 65535}

InitFlags ==
    /\ cpu = [CpuBoot EXCEPT !.sp = FLAG_STACK]
    /\ \E w \in StackWords :
          memory = MemWriteWord(MemoryBoot, w, FLAG_STACK)
    /\ ppu = PpuBoot
    /\ debt = 0
    /\ cpu_locked = FALSE
    /\ cpu_last = NoRun
    /\ prog_dots = 0
    /\ ppu_hist = NoHist
    /\ ppu_runs = 0
    /\ frame_shown = FALSE
    /\ apu = ApuNew

NextFlags == \E ins \in Fetchable(FlagProgram, ProgramDots) : CpuRun(ins)

SpecFlags == InitFlags /\ [][NextFlags]_vars

\* The memory map as a unit under stores of words: at the byte before DIV,
\* at DIV, TIMA and TMA, and in high RAM, with a timer that has run.
WordAddrs == {65283, 65284, 65285, 65286, HRAM_START}

WordVals == {0, 255, 4660, 43981}

WordDivVals == {0, 43776}

WordCounterVals == {0, 18}

InitWord ==
    /\ \E d \in WordDivVals, c \in WordCounterVals, mo \in WordCounterVals :
          memory = [MemoryBoot EXCEPT
                       !.timer = [div |-> d, counter |-> c, modulo |-> mo,
                                  control |-> 4, overflowing |-> FALSE]]
    /\ cpu = CpuBoot
    /\ ppu = PpuBoot
    /\ debt = 0
    /\ cpu_locked = FALSE
    /\ cpu_last = NoRun
    /\ prog_dots = 0
    /\ ppu_hist = NoHist
    /\ ppu_runs = 0
    /\ frame_shown = FALSE
    /\ apu = ApuNew

NextWord == \E a \in WordAddrs, w \in WordVals : WordWrite(a, w)

SpecWord == InitWord /\ [][NextWord]_vars

\* The timer as a unit, with the CPU's writes of its registers and the APU
\* that follows the divider: the divider starts four ticks before an edge
\* of one of the bits watched, with the APU caught up with it, and TIMA, TMA
\* and TAC hold what a program wrote.
TimerDivVals == {0, 12, 60, 252, 1020, 8188, 65532}

TimerCounterVals == {0, 254, 255}

TimerModuloVals == {0, 7}

TacVals == {1, 4, 5, 6, 7}

\* NR52 as a program writes it: audio off, audio on
Nr52Vals == {0, 128}

InitTimer ==
    /\ \E d \in TimerDivVals, c \in TimerCounterVals, mo \in TimerModuloVals,
          t \in TacVals :
          /\ memory = [MemoryBoot EXCEPT
                          !.io[IF_REG_ADDR] = 0,
                          !.timer = [div |-> d, counter |-> c, modulo |-> mo,
                                     control |-> t, overflowing |-> FALSE]]
          /\ apu = [ApuNew EXCEPT
                      !.divider_previous = HighByte(d),
                      !.divider_counter = HighByte(d) \div 32]
    /\ cpu = CpuBoot
    /\ ppu = PpuBoot
    /\ debt = 0
    /\ cpu_locked = FALSE
    /\ cpu_last = NoRun
    /\ prog_dots = 0
    /\ ppu_hist = NoHist
    /\ ppu_runs = 0
    /\ frame_shown = FALSE

NextTimer ==
    \/ TimerTickStep
    \/ \E v \in {0} : TimerWrite(65284, v)
    \/ \E v \in TacVals : TimerWrite(65287, v)
    \/ \E v \in Nr52Vals : TimerWrite(NR52_ADDR, v)
    \/ ApuUpdate

SpecTimer == InitTimer /\ [][NextTimer]_vars

\* The scheduler with a CPU that has interrupts enabled, or that was halted
\* with IME=0 after clearing IF and the STAT interrupt enables
HaltedQuiet ==
    /\ cpu = [CpuBoot EXCEPT !.halted = TRUE]
    /\ memory = [MemoryBoot EXCEPT !.io[IF_REG_ADDR] = 0, !.io[STAT_ADDRESS] = 0]

InitSched ==
    /\ \/ \E i \in BOOLEAN : cpu = [CpuBoot EXCEPT !.ime = i] /\ memory = MemoryBoot
       \/ HaltedQuiet
    /\ ppu = PpuBoot
    /\ debt = 0
    /\ cpu_locked = FALSE
    /\ cpu_last = NoRun
    /\ prog_dots = 0
    /\ ppu_hist = NoHist
    /\ ppu_runs = 0
    /\ frame_shown = FALSE
    /\ apu = ApuNew

\* main's loop for as long as it takes the PPU to run MaxPpuRuns times
NextSched ==
    \/ \E ins \in Fetchable(MainProgram, MainProgramDots) :
          ppu_runs < MaxPpuRuns /\ CpuTurn(ins) /\ UNCHANGED ppu_runs
    \/ ppu_runs < MaxPpuRuns /\ PpuForced /\ ppu_runs' = ppu_runs + 1
    \/ ppu_runs < MaxPpuRuns /\ PpuTurn /\ ppu_runs' = ppu_runs + 1

\* main's loop never blocks: each iteration runs the CPU or the PPU
FairSched == InitSched /\ [][NextSched]_vars /\ WF_vars(NextSched)

\* ------------------------------------------------------------------ claims

RegIF == memory.io[IF_REG_ADDR]

\* The interrupts flagged in IF, by bit number
PendingBits == {k \in 0..4 : Bit(RegIF, k) = 1}

LowestPending == CHOOSE k \in PendingBits : \A j \in PendingBits : k <= j

\* The step being taken is a call of Cpu::run that executed opcode `code`
Executes(code) == cpu_last'.kind = "exec" /\ cpu_last'.code = code

\* The call of Cpu::run before this step executed opcode `code`
Executed(code) == cpu_last.kind = "exec" /\ cpu_last.code = code

C2_EiDelay ==
    [][/\ (Executes(EI) /\ ~cpu.ime) => ~cpu'.ime
       /\ (Executed(EI) /\ cpu_last'.kind = "exec" /\ cpu_last'.code # DI)
             => cpu'.ime]_vars

C4_RetiSetsIme ==
    [][Executes(RETI) =>
          /\ cpu'.pc = MemReadWord(memory, cpu.sp)
          /\ cpu'.sp = cpu.sp + 2
          /\ cpu'.ime]_vars

\* C5: after HALT executes the CPU is Halted, and a Halted CPU that services
\* no interrupt leaves PC where it is.
C5_HaltHalts ==
    [][/\ Executes(HALT) => cpu'.halted
       /\ (cpu.halted /\ cpu_last'.kind # "service") => cpu'.pc = cpu.pc]_vars

\* C6: a run step of a CPU that is Halted with IME=0 leaves Halted without
\* servicing when an IF bit is set (IF, the stack, SP and PC stay as they
\* are); otherwise the CPU stays Halted and the timer advances by the four
\* ticks of one machine cycle.
C6_HaltedImeOff ==
    [][(cpu.halted /\ ~cpu.ime) =>
          IF RegIF > 0
          THEN /\ ~cpu'.halted /\ ~cpu'.ime
               /\ memory' = memory
               /\ cpu'.pc = cpu.pc /\ cpu'.sp = cpu.sp
          ELSE /\ cpu'.halted /\ ~cpu'.ime
               /\ cpu'.pc = cpu.pc /\ cpu'.sp = cpu.sp
               /\ memory'.timer.div = (memory.timer.div + 4) % 65536
               /\ memory'.hram = memory.hram]_vars

\* C6 witness: a Halted CPU with IME=0 was woken by a set IF bit
C6_Witness ==
    /\ cpu_last.kind = "wake"
    /\ ~cpu.halted /\ ~cpu.ime
    /\ RegIF > 0 /\ cpu.pc = CpuBoot.pc

\* The next iteration of main's loop runs the CPU, which may read any
\* register
CpuCanRead == debt <= 0 /\ ~cpu_locked

\* The PPU's dot position changes in this step
PpuAdvances == ppu'.current_dot # ppu.current_dot

\* C7: a CPU step that costs no dots locks the CPU, the iteration after it
\* runs the PPU and not the CPU, every call of Ppu::run moves the dot
\* position, and from every state the PPU goes on to run again, up to the
\* number of runs considered.
C7_SchedulerProgress ==
    /\ [][/\ (CpuCanRead /\ debt' = debt) => cpu_locked'
          /\ cpu_locked => (PpuAdvances /\ cpu' = cpu /\ cpu_last' = cpu_last
                              /\ ~cpu_locked')
          /\ (ppu_runs' # ppu_runs) => PpuAdvances]_vars
    /\ <>(ppu_runs = MaxPpuRuns)

\* C7 witness: the CPU has stayed Halted with IME=0 and IF=0, each of its
\* steps costing no dots, while the PPU scanned and drew a line
C7_Witness ==
    /\ cpu.halted /\ ~cpu.ime /\ RegIF = 0
    /\ cpu_last.kind = "idle"
    /\ ppu.current_mode = "HBlank"
    /\ ppu_runs > 40

\* C8: wherever the CPU can read it LY is in 0..153, and a step leaves LY
\* as it is or takes it to the next line, 153 wrapping to 0.
C8_LyRange ==
    /\ [](CpuCanRead => memory.io[LY_ADDRESS] \in 0..153)
    /\ [][memory'.io[LY_ADDRESS] \in
             {memory.io[LY_ADDRESS], (memory.io[LY_ADDRESS] + 1) % 154}]_vars

\* C9: wherever the CPU can read it, STAT bits 0-1 are the PPU's mode number
\* and STAT bit 2 is set exactly when LY = LYC.
C9_StatReflectsPpu ==
    CpuCanRead =>
       /\ memory.io[STAT_ADDRESS] % 4 = ModeNumber(ppu.current_mode)
       /\ (Bit(memory.io[STAT_ADDRESS], 2) = 1)
             <=> (memory.io[LY_ADDRESS] = memory.io[LYC_ADDRESS])

PpuLine == ppu.current_dot \div DOTS_PER_LINE

\* C10: every stay in OAMScan, PixelDraw and HBlank is on a line 0..143 and
\* lasts 80, 172 and 204 dots, the modes follow one another in that order,
\* lines 144..153 are VBlank, and the dots the PPU reports between two
\* starts of line 0 add up to 70224.
C10_LineTiming ==
    /\ ppu_hist.span_mode = "OAMScan" =>
          ppu_hist.span_dots = OAM_SCAN_TIME /\ ppu_hist.span_line \in 0..143
    /\ ppu_hist.span_mode = "PixelDraw" =>
          ppu_hist.span_dots = PIXEL_DRAW_TIME /\ ppu_hist.span_line \in 0..143
    /\ ppu_hist.span_mode = "HBlank" =>
          ppu_hist.span_dots = HBLANK_TIME /\ ppu_hist.span_line \in 0..143
    /\ ppu.current_mode = "OAMScan" =>
          ppu_hist.mode_dots < OAM_SCAN_TIME /\ ppu_hist.span_mode \in {"HBlank", "VBlank"}
    /\ ppu.current_mode = "PixelDraw" =>
          ppu_hist.mode_dots < PIXEL_DRAW_TIME /\ ppu_hist.span_mode = "OAMScan"
    /\ ppu.current_mode = "HBlank" =>
          ppu_hist.mode_dots < HBLANK_TIME /\ ppu_hist.span_mode = "PixelDraw"
    /\ PpuLine \in 0..143 =>
          ppu.current_mode = (IF ppu.current_dot % DOTS_PER_LINE < OAM_SCAN_TIME
                              THEN "OAMScan"
                              ELSE IF ppu.current_dot % DOTS_PER_LINE < PIXEL_DRAW_END_DOTS
                              THEN "PixelDraw" ELSE "HBlank")
    /\ PpuLine \in 144..153 => ppu.current_mode = "VBlank"
    /\ ppu_hist.frame_last \in {-1, 70224}

\* C10 witness: a whole frame has gone by and the next one is in the HBlank
\* of its line 143
C10_Witness ==
    /\ ppu_hist.frame_last = 70224
    /\ ppu.current_mode = "HBlank" /\ PpuLine = 143
    /\ ppu_hist.span_mode = "PixelDraw" /\ ppu_hist.span_dots = 172

\* The step being taken is a call of Ppu::run
PpuRan == ppu' # ppu

\* The step being taken brings the PPU into `mode`
EntersMode(mode) == ppu'.current_mode = mode /\ ppu.current_mode # mode

RegSTAT == memory.io[STAT_ADDRESS]

\* C11: a call of Ppu::run leaves IF bit 0 set exactly when it was set
\* before or the call enters VBlank, and a call that enters HBlank, VBlank
\* or OAMScan with that mode's STAT enable bit (3, 4, 5) set leaves IF bit 1
\* set.
C11_ModeInterrupts ==
    [][PpuRan =>
          /\ (Bit(memory'.io[IF_REG_ADDR], 0) = 1)
                <=> (EntersMode("VBlank") \/ Bit(RegIF, 0) = 1)
          /\ (EntersMode("HBlank") /\ Bit(RegSTAT, 3) = 1)
                => Bit(memory'.io[IF_REG_ADDR], 1) = 1
          /\ (EntersMode("VBlank") /\ Bit(RegSTAT, 4) = 1)
                => Bit(memory'.io[IF_REG_ADDR], 1) = 1
          /\ (EntersMode("OAMScan") /\ Bit(RegSTAT, 5) = 1)
                => Bit(memory'.io[IF_REG_ADDR], 1) = 1]_vars

\* C11 witness: the PPU has just entered VBlank with STAT bit 4 set and IF
\* cleared before, and IF holds the VBlank and STAT bits
C11_Witness ==
    /\ ppu.current_mode = "VBlank" /\ ppu.current_dot = VBLANK_START_DOTS
    /\ Bit(RegSTAT, 4) = 1
    /\ RegIF = 3

\* C12: for LYC in 0..153 and STAT bit 6 set, the call of Ppu::run that
\* makes LY equal to LYC leaves IF bit 1 and STAT bit 2 set.
C12_LycInterrupt ==
    [][(/\ PpuRan
        /\ memory.io[LYC_ADDRESS] \in 0..153
        /\ Bit(RegSTAT, 6) = 1
        /\ memory.io[LY_ADDRESS] # memory.io[LYC_ADDRESS]
        /\ memory'.io[LY_ADDRESS] = memory.io[LYC_ADDRESS])
          => /\ Bit(memory'.io[IF_REG_ADDR], 1) = 1
             /\ Bit(memory'.io[STAT_ADDRESS], 2) = 1]_vars

\* C13: a call of Ppu::run made while LCDC bit 7 is cleared leaves LY at 0,
\* does not advance the dot position (it stays, or goes back to the reset
\* state) and raises neither IF bit 0 nor IF bit 1.
C13_LcdOffInactive ==
    [][(PpuRan /\ Bit(memory.io[LCDC_ADDRESS], 7) = 0) =>
          /\ memory'.io[LY_ADDRESS] = 0
          /\ ppu'.current_dot \in {ppu.current_dot, DOT_MAX}
          /\ Bit(memory'.io[IF_REG_ADDR], 0) <= Bit(RegIF, 0)
          /\ Bit(memory'.io[IF_REG_ADDR], 1) <= Bit(RegIF, 1)]_vars

\* The buffers change places in this step
Swapped == ppu'.front_buffer_base # ppu.front_buffer_base

\* C14: the buffers swap only in the call of Ppu::run that enters VBlank or
\* is the first made in it (the start of line 144), and frame_is_ready
\* returns true in exactly the iterations in which they swapped.
C14_SwapAtVBlankEntry ==
    [][/\ Swapped => (EntersMode("VBlank")
                        \/ ppu.current_dot = VBLANK_START_DOTS)
       /\ frame_shown' <=> Swapped]_vars

\* C14 as amended: the buffers swap in exactly the call of Ppu::run that
\* starts VBlank's last line (line 153, dot 69768), which a frame passes
\* once, and frame_is_ready returns true in exactly the iterations in which
\* they swapped.
C14_SwapAtVBlankTail ==
    [][/\ Swapped <=> (/\ PpuRan
                       /\ ppu.current_mode = "VBlank"
                       /\ ppu.current_dot = DOT_MAX - DOTS_PER_LINE)
       /\ frame_shown' <=> Swapped]_vars

\* C14 witness: the iteration just made swapped the buffers at the start of
\* line 153 and frame_is_ready returned true in it
C14_Witness ==
    /\ frame_shown
    /\ ppu.front_buffer_base = DISPLAY_BUFFER_SIZE
    /\ ppu.current_dot = DOT_MAX - DOTS_PER_LINE + 24
    /\ ~ppu.frame_ready

\* The divider bit that TAC's bits 0-1 select
SelectedBit(tac) ==
    CASE tac % 4 = 0 -> 9
      [] tac % 4 = 1 -> 3
      [] tac % 4 = 2 -> 5
      [] tac % 4 = 3 -> 7

\* The step is a tick of the timer on which the selected divider bit goes
\* from 1 to 0 with TAC bit 2 set
TickFalls ==
    /\ cpu_last'.kind = "tick"
    /\ Bit(memory.timer.div, SelectedBit(memory.timer.control)) = 1
    /\ Bit(memory'.timer.div, SelectedBit(memory.timer.control)) = 0
    /\ Bit(memory.timer.control, 2) = 1

\* TIMA as a tick finds it: TMA when the tick reloads it after an overflow
TimaBase ==
    IF memory.timer.overflowing THEN memory.timer.modulo
    ELSE memory.timer.counter

\* C15: a tick increments TIMA exactly when the divider bit that TAC bits
\* 0-1 select (9, 3, 5, 7 for 00, 01, 10, 11) goes from 1 to 0 with TAC bit 2
\* set; on every other tick TIMA keeps its value, or takes TMA's when the
\* tick is the reload after an overflow.
C15_TimaFallingEdge ==
    [][cpu_last'.kind = "tick" =>
          memory'.timer.counter = IF TickFalls THEN (TimaBase + 1) % 256
                                  ELSE TimaBase]_vars

\* C15 witness: the tick that took the divider to 1024 with TAC=4 has
\* incremented TIMA from 0 to 1
C15_Witness ==
    /\ cpu_last.kind = "tick"
    /\ memory.timer.div = 1024
    /\ memory.timer.control = 4
    /\ memory.timer.counter = 1

\* C16: the tick that increments TIMA from 0xFF sets the overflowing latch
\* with TIMA at 0 and leaves IF alone; the latch is set by no other tick; the
\* next tick clears the latch, loads TIMA from TMA and raises IF bit 2.
C16_OverflowLatch ==
    [][cpu_last'.kind = "tick" =>
          /\ (~memory.timer.overflowing /\ memory.timer.counter = 255
                /\ TickFalls)
                => (/\ memory'.timer.overflowing
                    /\ memory'.timer.counter = 0
                    /\ RegIF' = RegIF)
          /\ memory'.timer.overflowing
                => (TickFalls /\ memory.timer.counter = 255)
          /\ memory.timer.overflowing
                => (/\ ~memory'.timer.overflowing
                    /\ memory'.timer.counter = memory.timer.modulo
                    /\ Bit(RegIF', 2) = 1)]_vars

\* C16 witness: a tick has loaded TIMA with a TMA of 7, which no write and no
\* increment of these runs gives it, and raised IF bit 2
C16_Witness ==
    /\ cpu_last.kind = "tick"
    /\ ~memory.timer.overflowing
    /\ memory.timer.counter = 7
    /\ RegIF = 4

\* The step is a CPU write of DIV
WritesDiv == cpu_last'.kind = "write" /\ cpu_last'.code = 65284

\* C17: after any write of FF04 the 16-bit divider is zero and FF04 reads 0.
C17_DivWriteZeroes ==
    [][WritesDiv => (memory'.timer.div = 0 /\ MemRead(memory', 65284) = 0)]_vars

\* C17 witness: DIV was written when it read 255, and the divider is zero
C17_Witness ==
    /\ cpu_last.kind = "write" /\ cpu_last.code = 65284
    /\ apu.divider_previous = 255
    /\ memory.timer.div = 0

\* C18: every CPU write of DIV leaves the notice of the reset; the notice
\* stays until the APU's next update, which clears it, counts at most one
\* DIV-APU tick and takes the divider read as its previous one.
C18_DivResetNotice ==
    [][/\ WritesDiv => memory'.div_reset
       /\ (memory.div_reset /\ ~memory'.div_reset) => cpu_last'.kind = "apu"
       /\ (cpu_last'.kind = "apu" /\ memory.div_reset)
             => (/\ ~memory'.div_reset
                 /\ apu'.divider_counter - apu.divider_counter \in {0, 1}
                 /\ apu'.divider_previous = MemRead(memory, 65284))]_vars

C20_WordIsBytePair ==
    [][cpu_last'.kind = "word" =>
          /\ \A x \in WordAddrs \cup {a + 1 : a \in WordAddrs} :
                MemRead(memory', x)
                    = MemRead(MemWrite(MemWrite(memory,
                                                LowByte(cpu_last'.value),
                                                cpu_last'.code),
                                       HighByte(cpu_last'.value),
                                       cpu_last'.code + 1), x)
          /\ \A a \in WordAddrs :
                MemReadWord(memory', a)
                    = MemRead(memory', a) + 256 * MemRead(memory', a + 1)]_vars

\* ---------------------------------------------------------------- the OAM DMA

\* The rest of the machine, which the unit runs below leave alone
Idle ==
    UNCHANGED <<cpu, ppu, debt, cpu_locked, prog_dots, ppu_hist, ppu_runs,
                frame_shown, apu>>

\* A store of the byte v at a, as LD (a16),A makes it
ByteWrite(a, v) ==
    /\ memory' = MemWrite(memory, v, a)
    /\ cpu_last' = [kind |-> "byte", code |-> a, value |-> v]
    /\ Idle

\* A store of the byte b at 0xFF46
DmaWrite(b) ==
    /\ memory' = MemWrite(memory, b, 65350)
    /\ cpu_last' = [kind |-> "dma", code |-> 65350, value |-> b]
    /\ Idle

\* The source pages of the DMAs: ROM, the two work RAMs and the OAM itself
DmaPages == {0, 192, 208, 254}

\* The addresses the program stores at between the DMAs, and what it stores
DmaStoreAddrs == {WRAM_START + 1, WRAM_S_START, OAM_START + 160}
DmaStoreVals == {90, 255}

\* The DMA as a unit: work RAM holds 0x00..0x9F at 0xC000..0xC09F
InitDma ==
    /\ memory = [MemoryBoot EXCEPT
                    !.work_ram = [a \in WRAM_START..(WRAM_START + 159)
                                     |-> a - WRAM_START]]
    /\ cpu = CpuBoot
    /\ ppu = PpuBoot
    /\ debt = 0
    /\ cpu_locked = FALSE
    /\ cpu_last = NoRun
    /\ prog_dots = 0
    /\ ppu_hist = NoHist
    /\ ppu_runs = 0
    /\ frame_shown = FALSE
    /\ apu = ApuNew

NextDma ==
    \/ \E b \in DmaPages : DmaWrite(b)
    \/ \E a \in DmaStoreAddrs, v \in DmaStoreVals : ByteWrite(a, v)

SpecDma == InitDma /\ [][NextDma]_vars

\* C21: a store of b at 0xFF46 leaves in 0xFE00+i, for each i below 160, the
\* byte that was at (b << 8) + i before the store, and changes nothing else
\* of the memory.
C21_DmaCopiesPage ==
    [][cpu_last'.kind = "dma" =>
          /\ \A i \in 0..159 :
                MemRead(memory', OAM_START + i)
                    = MemRead(memory, cpu_last'.value * 256 + i)
          /\ memory' = [memory EXCEPT !.oam = memory'.oam]
          /\ \A a \in (DOMAIN memory.oam) \ (OAM_START..(OAM_START + 159)) :
                memory'.oam[a] = memory.oam[a]
          /\ DOMAIN memory'.oam \subseteq
                 (DOMAIN memory.oam) \cup (OAM_START..(OAM_START + 159))]_vars

\* C21 witness: the store of 0xC0 has left 0x00..0x9F in 0xFE00..0xFE9F
C21_Witness ==
    /\ cpu_last.kind = "dma"
    /\ cpu_last.value = 192
    /\ \A i \in 0..159 : MemRead(memory, OAM_START + i) = i

\* ------------------------------------------------- the unusable region

\* The addresses of 0xFEA0..0xFEFF looked at: its first and last bytes
UnusableProbes == {UNUSABLE_START, IOREGS_START - 1}

\* C22: every read of 0xFEA0..0xFEFF gives 0xFF, whatever was stored there
\* before.
C22_UnusableReadsFF ==
    \A a \in UnusableProbes : MemRead(memory, a) = 255

\* ------------------------------------------------------- the cartridge unit

\* A read of the byte at a, as LD A,(a16) makes it
ByteRead(a) ==
    /\ cpu_last' = [kind |-> "read", code |-> a, value |-> MemRead(memory, a)]
    /\ UNCHANGED memory
    /\ Idle

\* An access has gone outside its buffer: the emulator has ended
Panicked ==
    \/ memory.panicked
    \/ cpu_last.kind = "read" /\ cpu_last.value = PANIC

\* The cartridges loaded: 32 KiB without mapper, and MBC1 with 64 KiB of ROM
\* and no RAM, one bank of RAM or four
Carts == {CartLoaded("NoMBC", 32768, 0), CartLoaded("MBC1", 65536, 0),
          CartLoaded("MBC1", 65536, 8192), CartLoaded("MBC1", 65536, 32768)}

\* The addresses the program reads: both ROM windows and the cartridge RAM
\* window
CartAddrs == {0, 16384, VRAM_START - 1, EXRAM_START, WRAM_START - 1}

\* The addresses of the four MBC1 registers and the values stored there, and
\* the address and the value stored in the cartridge RAM
CartRegs == {0, 8192, 16384, 24576}
CartVals == {0, 1, 3, 10, 26}
CartRamVals == {90}

InitCart ==
    /\ \E c \in Carts : memory = [MemoryBoot EXCEPT !.cart = c]
    /\ cpu = CpuBoot
    /\ ppu = PpuBoot
    /\ debt = 0
    /\ cpu_locked = FALSE
    /\ cpu_last = NoRun
    /\ prog_dots = 0
    /\ ppu_hist = NoHist
    /\ ppu_runs = 0
    /\ frame_shown = FALSE
    /\ apu = ApuNew

NextCart ==
    /\ ~Panicked
    /\ \/ \E a \in CartAddrs : ByteRead(a)
       \/ \E a \in CartRegs, v \in CartVals : ByteWrite(a, v)
       \/ \E v \in CartRamVals : ByteWrite(EXRAM_START, v)

SpecCart == InitCart /\ [][NextCart]_vars

\* C23: no read or write of a byte through the memory map goes outside the
\* buffer it lands in, whatever the cartridge and its bank registers.
C23_DecoderTotal == ~Panicked

\* C24: on MBC1 the cartridge RAM is enabled after a store at 0x0000..0x1FFF
\* exactly when the low nibble of the value stored is 0xA, and a read of
\* 0xA000..0xBFFF with the RAM disabled gives 0xFF.
C24_RamEnableLowNibble ==
    [][/\ (/\ memory.cart.mapper = "MBC1"
           /\ cpu_last'.kind = "byte"
           /\ cpu_last'.code < 8192)
          => memory'.cart.ram_enabled = (cpu_last'.value % 16 = 10)
       /\ (/\ memory.cart.mapper = "MBC1"
           /\ cpu_last'.kind = "read"
           /\ cpu_last'.code >= EXRAM_START
           /\ ~memory.cart.ram_enabled)
          => cpu_last'.value = 255]_vars

\* ------------------------------------------------------------ the joypad unit

\* The bits of last that are set and cleared in now: the buttons that went
\* from high to low
WentLow(last, now) ==
    {n \in 0..7 : Bit(last, n) = 1 /\ Bit(now, n) = 0}

\* InputHandler::poll with the devices' buttons giving the byte state
\* (0 = pressed)
Poll(state) ==
    /\ memory' =
          LET m  == [memory EXCEPT !.joypad.button_values = state,
                                   !.joypad.last_button_state = state]
              f  == MemRead(m, IF_REG_ADDR)
              f1 == IF WentLow(memory.joypad.last_button_state, state) # {}
                    THEN SetBit(f, 4) ELSE f
          IN MemWrite(m, f1, IF_REG_ADDR)
    /\ cpu_last' = [kind |-> "poll", code |-> IOREGS_START, value |-> state]
    /\ Idle

\* The button bytes the devices give: nothing pressed, A, Down, and two
\* with buttons of both nibbles pressed
ButtonStates == {255, 254, 127, 165, 60}

\* The bytes the program stores at 0xFF00
JoypadSelects == {0, 16, 32, 48}

InitJoypad ==
    /\ memory = [MemoryBoot EXCEPT !.io[IF_REG_ADDR] = 0]
    /\ cpu = CpuBoot
    /\ ppu = PpuBoot
    /\ debt = 0
    /\ cpu_locked = FALSE
    /\ cpu_last = NoRun
    /\ prog_dots = 0
    /\ ppu_hist = NoHist
    /\ ppu_runs = 0
    /\ frame_shown = FALSE
    /\ apu = ApuNew

NextJoypad ==
    \/ \E state \in ButtonStates : Poll(state)
    \/ \E v \in JoypadSelects : ByteWrite(IOREGS_START, v)
    \/ ByteRead(IOREGS_START)
    \/ ByteWrite(IF_REG_ADDR, 0)

SpecJoypad == InitJoypad /\ [][NextJoypad]_vars

\* The joypad register has just been read
ReadsJoypad == cpu_last'.kind = "read" /\ cpu_last'.code = IOREGS_START

\* C25 as stated: a read of 0xFF00 gives bit 5 with the low nibble of the
\* button byte in Buttons mode, bit 4 with the high nibble in DPad mode, and
\* 0x0F when Unselected.
C25_JoypadReadAsStated ==
    [][ReadsJoypad =>
          cpu_last'.value =
              CASE memory.joypad.mode = "Buttons"
                      -> 32 + (memory.joypad.button_values % 16)
                [] memory.joypad.mode = "DPad"
                      -> 16 + (memory.joypad.button_values \div 16)
                [] OTHER -> 15]_vars

\* C25, amended: a read of 0xFF00 gives bit 5 with the high nibble of the
\* button byte in Buttons mode, bit 4 with the low nibble in DPad mode, and
\* 0x0F when Unselected.
C25_JoypadRead ==
    [][ReadsJoypad =>
          cpu_last'.value =
              CASE memory.joypad.mode = "Buttons"
                      -> 32 + (memory.joypad.button_values \div 16)
                [] memory.joypad.mode = "DPad"
                      -> 16 + (memory.joypad.button_values % 16)
                [] OTHER -> 15]_vars

\* C25 witness: with the button byte 0xA5 a read in Buttons mode has given
\* 0x2A
C25_Witness ==
    /\ cpu_last.kind = "read"
    /\ cpu_last.code = IOREGS_START
    /\ memory.joypad.mode = "Buttons"
    /\ memory.joypad.button_values = 165
    /\ cpu_last.value = 42

\* ------------------------------------------------------ the byte arithmetic

\* Cpu::byte_addition, prior_carry being the carry taken in (0 or 1): the
\* u16 sum cannot overflow
ByteAddition(lhs, rhs, prior_carry) ==
    LET result == lhs + rhs + prior_carry
    IN [result     |-> result % 256,
        zero       |-> result = 0,
        negate     |-> FALSE,
        half_carry |-> (lhs % 16) + (rhs % 16) + prior_carry > 15,
        carry      |-> (lhs % 256) + (rhs % 256) + prior_carry > 255]

\* The four set_flag calls of add_byte and sub_byte, then the write of A
StoreArithmetic(c, r) ==
    [SetFlag(SetFlag(SetFlag(SetFlag(c, FLAG_Z, r.zero), FLAG_N, r.negate),
                     FLAG_H, r.half_carry), FLAG_C, r.carry)
        EXCEPT !.a = r.result]

\* The carry an operation takes in
PriorCarry(c, with_carry) ==
    IF with_carry /\ CheckFlag(c, FLAG_C) THEN 1 ELSE 0

\* Cpu::add_byte
AddByte(c, rhs, with_carry) ==
    StoreArithmetic(c, ByteAddition(c.a, rhs, PriorCarry(c, with_carry)))

\* A u16 after an operation that wraps
Wrap16(x) == x % 65536

\* Cpu::byte_subtraction leaves the u16 range in one of its subtractions or
\* in the addition of the carry: a build with overflow checks panics there,
\* one without wraps
SubtractionOverflows(lhs, rhs, prior_carry) ==
    \/ lhs * 256 - rhs * 256 - prior_carry * 256 < 0
    \/ (lhs \div 16) * 4096 - (rhs \div 16) * 4096 - prior_carry * 256 < 0
    \/ lhs * 256 - rhs * 256 + prior_carry * 256 > 65535

\* Cpu::byte_subtraction in a build whose arithmetic wraps
ByteSubtraction(lhs, rhs, prior_carry) ==
    LET l      == lhs * 256
        r      == rhs * 256
        p      == prior_carry * 256
        result == Wrap16(l - r - p)
    IN [result     |-> result \div 256,
        zero       |-> result = 0,
        negate     |-> TRUE,
        half_carry |-> Wrap16((lhs \div 16) * 4096 - (rhs \div 16) * 4096 - p)
                           < 61440,
        carry      |-> Wrap16(Wrap16(l - r) + p) < 65280]

\* Cpu::sub_byte in a build whose arithmetic wraps
SubByte(c, rhs, with_carry) ==
    StoreArithmetic(c, ByteSubtraction(c.a, rhs, PriorCarry(c, with_carry)))

\* ADD A,d8 or ADC A,d8 with the operand rhs
AluAdd(rhs, with_carry) ==
    /\ cpu' = AddByte(cpu, rhs, with_carry)
    /\ cpu_last' = [kind |-> "add", code |-> rhs,
                    value |-> PriorCarry(cpu, with_carry)]
    /\ UNCHANGED <<memory, ppu, debt, cpu_locked, prog_dots, ppu_hist,
                   ppu_runs, frame_shown, apu>>

\* SUB d8 or SBC A,d8 with the operand rhs, in a build that checks its
\* arithmetic for overflow or in one that does not
AluSub(rhs, with_carry, checked) ==
    /\ IF checked /\ SubtractionOverflows(cpu.a, rhs,
                                          PriorCarry(cpu, with_carry))
       THEN /\ cpu_last' = [kind |-> "panic", code |-> rhs,
                            value |-> PriorCarry(cpu, with_carry)]
            /\ UNCHANGED cpu
       ELSE /\ cpu' = SubByte(cpu, rhs, with_carry)
            /\ cpu_last' = [kind |-> "sub", code |-> rhs,
                            value |-> PriorCarry(cpu, with_carry)]
    /\ UNCHANGED <<memory, ppu, debt, cpu_locked, prog_dots, ppu_hist,
                   ppu_runs, frame_shown, apu>>

\* The operands of the arithmetic
AluOperands == {0, 1, 15, 16, 255}

\* The arithmetic as a unit: A and F as the program left them
AluAccumulators == {0, 15, 17, 255}
AluFlags == {0, 16}

InitAlu ==
    /\ \E a \in AluAccumulators, f \in AluFlags :
          cpu = [CpuBoot EXCEPT !.a = a, !.f = f]
    /\ memory = MemoryBoot
    /\ ppu = PpuBoot
    /\ debt = 0
    /\ cpu_locked = FALSE
    /\ cpu_last = NoRun
    /\ prog_dots = 0
    /\ ppu_hist = NoHist
    /\ ppu_runs = 0
    /\ frame_shown = FALSE
    /\ apu = ApuNew

NextAlu ==
    /\ cpu_last.kind # "panic"
    /\ \/ \E rhs \in AluOperands, with_carry \in BOOLEAN :
             AluAdd(rhs, with_carry)
       \/ \E rhs \in AluOperands, with_carry, checked \in BOOLEAN :
             AluSub(rhs, with_carry, checked)

SpecAlu == InitAlu /\ [][NextAlu]_vars

\* C26: an addition of the byte b with the carry c taken in leaves
\* (a + b + c) mod 256 in A, Z set exactly when that byte is 0, N clear, H the
\* carry out of bit 3 and C the carry out of bit 7.
C26_ByteAdd ==
    [][cpu_last'.kind = "add" =>
          LET a == cpu.a
              b == cpu_last'.code
              c == cpu_last'.value
          IN /\ cpu'.a = (a + b + c) % 256
             /\ CheckFlag(cpu', FLAG_Z) = ((a + b + c) % 256 = 0)
             /\ ~CheckFlag(cpu', FLAG_N)
             /\ CheckFlag(cpu', FLAG_H) = ((a % 16) + (b % 16) + c > 15)
             /\ CheckFlag(cpu', FLAG_C) = (a + b + c > 255)]_vars

\* C27: a subtraction of the byte b with the carry c taken in completes and
\* leaves (a - b - c) mod 256 in A, Z set exactly when that byte is 0, N set,
\* H the borrow of the low nibbles and C the borrow of the bytes.
C27_ByteSub ==
    [][cpu_last'.kind \in {"sub", "panic"} =>
          LET a == cpu.a
              b == cpu_last'.code
              c == cpu_last'.value
          IN /\ cpu_last'.kind = "sub"
             /\ cpu'.a = (a - b - c) % 256
             /\ CheckFlag(cpu', FLAG_Z) = ((a - b - c) % 256 = 0)
             /\ CheckFlag(cpu', FLAG_N)
             /\ CheckFlag(cpu', FLAG_H) = ((a % 16) < (b % 16) + c)
             /\ CheckFlag(cpu', FLAG_C) = (a < b + c)]_vars

\* C28: the execution of an illegal opcode moves PC by one, is charged one
\* machine cycle (four dots of debt) and leaves the CPU free to execute the
\* opcode that follows.
C28_IllegalIsNop ==
    [][Executes(ILLEGAL) =>
          /\ cpu'.pc = (cpu.pc + 1) % 65536
          /\ debt' = debt + 4
          /\ ~cpu_locked']_vars

\* ---------------------------------------------------------------- the APU unit

\* The machine cycles of LDH (a8),A and of NOP
LDH_COST == 3
NOP_COST == 1

\* What a CPU write leaves for the APU besides the byte stored
Notified(m, v, a) ==
    IF a = 65284 THEN NotifyDivReset(m)
    ELSE IF a \in DOMAIN ApuRegisterAt THEN NotifyApuState(m, v, a)
    ELSE m

\* main's loop, a turn of the CPU that stores v at the register a with
\* LDH (a8),A: the store, the timer's ticks through the instruction's
\* cycles, then the APU's update
ApuStore(a, v) ==
    \E m \in {TickTimerTimes(Notified(MemWrite(memory, v, a), v, a),
                             4 * LDH_COST)} :
    \E u \in {CatchupRegisters(apu, m)} :
       /\ prog_dots + 4 * LDH_COST <= ApuDots
       /\ memory' = u.mem
       /\ apu' = u.apu
       /\ prog_dots' = prog_dots + 4 * LDH_COST
       /\ cpu_last' = [kind |-> "write", code |-> a, value |-> v]
       /\ UNCHANGED <<cpu, ppu, debt, cpu_locked, ppu_hist, ppu_runs,
                      frame_shown>>

\* main's loop, a turn of the CPU that executes NOP: the timer's ticks, then
\* the APU's update
ApuNop ==
    \E m \in {TickTimerTimes(memory, 4 * NOP_COST)} :
    \E u \in {CatchupRegisters(apu, m)} :
       /\ prog_dots + 4 * NOP_COST <= ApuDots
       /\ memory' = u.mem
       /\ apu' = u.apu
       /\ prog_dots' = prog_dots + 4 * NOP_COST
       /\ cpu_last' = [kind |-> "nop", code |-> NOP, value |-> 0]
       /\ UNCHANGED <<cpu, ppu, debt, cpu_locked, ppu_hist, ppu_runs,
                      frame_shown>>

\* The stores of the program: NR10 (sweep pace 1, step 1, upwards), NR11,
\* NR13, NR14 (trigger, period 0x600), NR24 (trigger), NR31, NR52 (off and
\* on) and DIV
ApuStores == {<<65296, 17>>, <<65297, 63>>, <<65299, 0>>, <<65300, 134>>,
              <<65305, 128>>, <<65307, 1>>, <<NR52_ADDR, 0>>,
              <<NR52_ADDR, 128>>, <<65284, 0>>}

\* The APU as a unit: the divider is a few instructions short of a fall of
\* bit 4 of DIV, the APU has followed it that far and has counted DIV-APU
\* ticks up to one short of a multiple of 4
ApuDivVals == {8164, 8168, 8180, 8188}
ApuCounterVals == {3, 7}

InitApu ==
    /\ \E d \in ApuDivVals, n \in ApuCounterVals :
          /\ memory = [MemoryBoot EXCEPT !.timer.div = d]
          /\ apu = [ApuNew EXCEPT !.divider_previous = HighByte(d),
                                  !.divider_counter = n]
    /\ cpu = CpuBoot
    /\ ppu = PpuBoot
    /\ debt = 0
    /\ cpu_locked = FALSE
    /\ cpu_last = NoRun
    /\ prog_dots = 0
    /\ ppu_hist = NoHist
    /\ ppu_runs = 0
    /\ frame_shown = FALSE

NextApu ==
    \/ \E s \in ApuStores : ApuStore(s[1], s[2])
    \/ ApuNop

SpecApu == InitApu /\ [][NextApu]_vars

\* The latches a store of v at the register a marks
LatchesMarked(a, v) ==
    CASE a = 65297 -> {"ch1_length_timer_to_update"}
      [] a = 65299 -> {"ch1_period_to_update"}
      [] a = 65300 -> {"ch1_period_to_update"}
                         \cup (IF v >= 128 THEN {"ch1_to_trigger"} ELSE {})
      [] a = 65302 -> {"ch2_length_timer_to_update"}
      [] a = 65304 -> {"ch2_period_to_update"}
      [] a = 65305 -> {"ch2_period_to_update"}
                         \cup (IF v >= 128 THEN {"ch2_to_trigger"} ELSE {})
      [] a = 65307 -> {"ch3_length_timer_to_update"}
      [] a = 65309 -> {"ch3_period_to_update"}
      [] a = 65310 -> {"ch3_period_to_update"}
                         \cup (IF v >= 128 THEN {"ch3_to_trigger"} ELSE {})
      [] OTHER -> {}

\* C29: after the APU's update that follows a store to one of its registers
\* every latch the store marked is clear again (the update has not counted a
\* DIV-APU tick, so that no sweep of its own has written the period back).
C29_LatchesConsumed ==
    [][(/\ cpu_last'.kind = "write"
        /\ apu'.divider_counter = apu.divider_counter)
          => \A l \in LatchesMarked(cpu_last'.code, cpu_last'.value) :
                ~memory'.apu_state[l]]_vars

\* C30: channel 1 is never active with a current period above 0x7FF.
C30_SweepBoundsPeriod ==
    apu.channel_1_active => apu.channel_1_period_current <= 2047

\* ------------------------------------------------------- the CPU's branches

\* One call of Cpu::run on its own, keeping the operand of the instruction
BranchRun(ins) ==
    \E r \in {Run(cpu, memory, ins)} :
       /\ prog_dots + 4 * r.cost <= ProgramDots
       /\ cpu' = r.cpu
       /\ memory' = r.mem
       /\ cpu_last' = [kind |-> r.kind, code |-> ins.code, arg |-> ins.arg]
       /\ prog_dots' = prog_dots + 4 * r.cost
       /\ UNCHANGED <<ppu, debt, cpu_locked, ppu_hist, ppu_runs,
                      frame_shown, apu>>

\* The opcodes of JR cc, JP cc, CALL cc and RET cc
JrCodes == {32, 40, 48, 56}
JpCodes == {194, 202, 210, 218}
CallCodes == {196, 204, 212, 220}
RetCodes == {192, 200, 208, 216}

\* Offsets of JR: +2, -2, -128
JrOffsets == {2, 254, 128}

\* Targets of JP and CALL
BranchTargets == {512}

\* The program: every JR, JP cc, CALL cc and RET cc, and SCF and CCF to move
\* the carry
BranchProgram ==
    UNION {WithArg(k, JrOffsets) : k \in {24} \cup JrCodes}
      \cup UNION {WithArg(k, BranchTargets) : k \in JpCodes \cup CallCodes}
      \cup NoArg(RetCodes \cup {SCF, CCF})

\* F as the program left it: Z and C in each combination
BranchFlags == {0, 16, 128, 144}

\* The stack is in high RAM and holds a return address
InitBranch ==
    /\ \E f \in BranchFlags : cpu = [CpuBoot EXCEPT !.f = f,
                                                    !.sp = FLAG_STACK]
    /\ memory = MemWriteWord(MemoryBoot, 4660, FLAG_STACK)
    /\ ppu = PpuBoot
    /\ debt = 0
    /\ cpu_locked = FALSE
    /\ cpu_last = NoRun
    /\ prog_dots = 0
    /\ ppu_hist = NoHist
    /\ ppu_runs = 0
    /\ frame_shown = FALSE
    /\ apu = ApuNew

\* What the ROM may hold at PC: the program returns and calls only with its
\* stack in high RAM
BranchFetchable ==
    {ins \in BranchProgram :
        /\ ins.code \in RetCodes
              => cpu.sp >= HRAM_START /\ cpu.sp + 1 < IE_START
        /\ ins.code \in CallCodes
              => cpu.sp - 2 >= HRAM_START /\ cpu.sp - 1 < IE_START}

NextBranch ==
    \E ins \in BranchFetchable : ~memory.panicked /\ BranchRun(ins)

SpecBranch == InitBranch /\ [][NextBranch]_vars

\* The condition code an opcode of the branch group names in its bits 3..4
OwnCondition(code) ==
    CASE (code \div 8) % 4 = 0 -> ~CheckFlag(cpu, FLAG_Z)
      [] (code \div 8) % 4 = 1 -> CheckFlag(cpu, FLAG_Z)
      [] (code \div 8) % 4 = 2 -> ~CheckFlag(cpu, FLAG_C)
      [] (code \div 8) % 4 = 3 -> CheckFlag(cpu, FLAG_C)

\* A JR ran and was taken
JrTaken ==
    /\ cpu_last'.kind = "exec"
    /\ \/ cpu_last'.code = 24
       \/ cpu_last'.code \in JrCodes /\ OwnCondition(cpu_last'.code)

\* C31: a taken JR e sets PC to the address of the following instruction
\* plus the signed offset e and leaves SP, A and F as they were.
C31_JrTaken ==
    [][JrTaken =>
          /\ cpu'.pc = cpu.pc + 2 + InterpretAsSigned(cpu_last'.arg)
          /\ cpu'.sp = cpu.sp
          /\ cpu'.a = cpu.a /\ cpu'.f = cpu.f]_vars

\* The machine cycles the step took
CyclesSpent == (prog_dots' - prog_dots) \div 4

\* C32: every conditional JP, JR, CALL and RET branches exactly when its own
\* condition code holds (JP and CALL reach their target, RET pops), and
\* costs the taken cycles exactly then: JR 3 or 2, JP 4 or 3, CALL 6 or 3,
\* RET 5 or 2.
C32_BranchOnOwnCondition ==
    [][cpu_last'.kind = "exec" =>
          LET code == cpu_last'.code
              holds == OwnCondition(code)
          IN /\ code \in JrCodes => CyclesSpent = (IF holds THEN 3 ELSE 2)
             /\ code \in JpCodes =>
                   /\ CyclesSpent = (IF holds THEN 4 ELSE 3)
                   /\ cpu'.pc = (IF holds THEN cpu_last'.arg ELSE cpu.pc + 3)
             /\ code \in CallCodes =>
                   /\ CyclesSpent = (IF holds THEN 6 ELSE 3)
                   /\ cpu'.pc = (IF holds THEN cpu_last'.arg ELSE cpu.pc + 3)
                   /\ cpu'.sp = (IF holds THEN cpu.sp - 2 ELSE cpu.sp)
             /\ code \in RetCodes =>
                   /\ CyclesSpent = (IF holds THEN 5 ELSE 2)
                   /\ cpu'.sp = (IF holds THEN cpu.sp + 2 ELSE cpu.sp)]_vars

DebtProgram ==
    WithArg(202, CallTargets) \cup WithArg(204, CallTargets) \cup NoArg({200})

\* What the ROM may hold at PC: the program calls from the top of its stack
\* and returns when the stack holds an address
DebtFetchable ==
    {ins \in DebtProgram :
        /\ ins.code = 204 => cpu.sp = CpuBoot.sp
        /\ ins.code = 200 => cpu.sp = CpuBoot.sp - 2}

\* The emulator at boot; or with the STAT interrupt enabled (IME and IE set,
\* IF cleared); or halted with IME=0 after clearing IF and the STAT interrupt
\* enables
InitDebt ==
    /\ \/ cpu = CpuBoot /\ memory = MemoryBoot
       \/ /\ cpu = [CpuBoot EXCEPT !.ime = TRUE]
          /\ memory = [MemoryBoot EXCEPT !.ie = 2, !.io[IF_REG_ADDR] = 0]
       \/ HaltedQuiet
    /\ ppu = PpuBoot
    /\ debt = 0
    /\ cpu_locked = FALSE
    /\ cpu_last = NoRun
    /\ prog_dots = 0
    /\ ppu_hist = NoHist
    /\ ppu_runs = 0
    /\ frame_shown = FALSE
    /\ apu = ApuNew

\* main's loop for as long as it takes the PPU to run MaxPpuRuns times
NextDebt ==
    \/ \E ins \in DebtFetchable :
          ppu_runs < MaxPpuRuns /\ CpuTurn(ins) /\ UNCHANGED ppu_runs
    \/ ppu_runs < MaxPpuRuns /\ PpuForced /\ ppu_runs' = ppu_runs + 1
    \/ ppu_runs < MaxPpuRuns /\ PpuTurn /\ ppu_runs' = ppu_runs + 1

SpecDebt == InitDebt /\ [][NextDebt]_vars

\* The ticks of the divider since boot: DIV16 starts at 0, no program here
\* writes DIV, and the runs are shorter than its 65536 ticks
TimerTicks == memory.timer.div

\* The dots the PPU has run since boot, within its first frame: the granule
\* of VBlank that takes it to dot 0, then current_dot
PpuDots ==
    IF ppu.current_mode = "VBlank" /\ ppu.current_dot = DOT_MAX THEN 0
    ELSE Granule("VBlank") + ppu.current_dot

\* The longest instruction (6 cycles) and the largest granule of the PPU
LongestInstructionDots == 4 * 6
LargestGranule == Granule("PixelDraw")

C39_DebtBounded ==
    /\ debt <= LongestInstructionDots
    /\ debt >= 1 - LargestGranule

\* C39 witness: the PPU, drawing pixels with one dot owed, has taken the
\* balance to its lower bound
C39_Witness ==
    /\ cpu_last.kind = "exec"
    /\ ppu.current_mode \in {"PixelDraw", "HBlank"}
    /\ debt = 1 - LargestGranule

\* --------------------------------------- word and bit operations of the CPU

\* RegisterBank::read_word for SP and HL
ReadWord(c, register) == IF register = "RegSP" THEN c.sp ELSE c.hl

\* RegisterBank::write_word for SP and HL
WriteWord(c, register, value) ==
    IF register = "RegSP" THEN [c EXCEPT !.sp = value]
    ELSE [c EXCEPT !.hl = value]

\* The | of two values of n bits
RECURSIVE BitwiseOr(_, _, _)
BitwiseOr(x, y, n) ==
    IF n = 0 THEN 0
    ELSE (IF x % 2 = 1 \/ y % 2 = 1 THEN 1 ELSE 0)
            + 2 * BitwiseOr(x \div 2, y \div 2, n - 1)

\* pre_increment + 1 and pre_decrement + 1 on a u16: a build that checks its
\* arithmetic panics at 0xFFFF, one that does not wraps
WordStepOverflows(c, register) == ReadWord(c, register) + 1 > 65535

\* Cpu::inc_word
IncWord(c, register) ==
    LET pre_increment == ReadWord(c, register)
        post_increment == Wrap16(pre_increment + 1)
    IN WriteWord(c, register, post_increment)

\* Cpu::dec_word
DecWord(c, register) ==
    LET pre_decrement == ReadWord(c, register)
        post_decrement == Wrap16(pre_decrement + 1)
    IN WriteWord(c, register, post_decrement)

\* Cpu::bit on the byte `item` holds
BitTest(c, bit_position, item) ==
    LET value == BitwiseOr(item, 2 ^ bit_position, 8)
    IN SetFlagOn(SetFlagOff(SetFlag(c, FLAG_Z, value > 0), FLAG_N), FLAG_H)

\* Cpu::swap on A
Swap(c) ==
    LET original_value == c.a
        high == original_value - (original_value % 16)
        low  == original_value % 16
        new_value == BitwiseOr((low * 16) % 256, high, 8)
    IN [SetFlagOff(SetFlagOff(SetFlagOff(
            SetFlag(c, FLAG_Z, new_value = 0), FLAG_N), FLAG_H), FLAG_C)
          EXCEPT !.a = new_value]

\* Cpu::add_hl_word with a word register as the operand
AddHlWord(c, operand) ==
    LET lhs == ReadWord(c, "RegHL")
        rhs == ReadWord(c, operand)
        lhs_lower == lhs % 256
        lhs_upper == ((lhs - (lhs % 256)) \div 16) % 256
        rhs_lower == rhs % 256
        rhs_upper == ((rhs - (rhs % 256)) \div 16) % 256
        lower == ByteAddition(lhs_lower, rhs_lower, 0)
        c1    == SetFlag(SetFlag(c, FLAG_H, lower.half_carry),
                         FLAG_C, lower.carry)
        upper == ByteAddition(lhs_upper, rhs_upper, PriorCarry(c1, TRUE))
        c2    == SetFlag(SetFlag(SetFlagOff(c1, FLAG_N),
                                 FLAG_H, upper.half_carry),
                         FLAG_C, upper.carry)
        sum   == BitwiseOr(upper.result * 16, lower.result, 16)
    IN WriteWord(c2, "RegHL", sum)

\* What every operation here leaves alone, and its two machine cycles
OpSpends ==
    /\ prog_dots + 8 <= ProgramDots
    /\ prog_dots' = prog_dots + 8
    /\ UNCHANGED <<memory, ppu, debt, cpu_locked, ppu_hist, ppu_runs,
                   frame_shown, apu>>

\* INC rr, in a build that checks its arithmetic or in one that does not
IncWordOp(register, checked) ==
    /\ IF checked /\ WordStepOverflows(cpu, register)
       THEN /\ cpu_last' = [kind |-> "panic", code |-> register,
                            value |-> ReadWord(cpu, register)]
            /\ UNCHANGED cpu
       ELSE /\ cpu' = IncWord(cpu, register)
            /\ cpu_last' = [kind |-> "inc_word", code |-> register,
                            value |-> ReadWord(cpu, register)]
    /\ OpSpends

\* DEC rr, in a build that checks its arithmetic or in one that does not
DecWordOp(register, checked) ==
    /\ IF checked /\ WordStepOverflows(cpu, register)
       THEN /\ cpu_last' = [kind |-> "panic", code |-> register,
                            value |-> ReadWord(cpu, register)]
            /\ UNCHANGED cpu
       ELSE /\ cpu' = DecWord(cpu, register)
            /\ cpu_last' = [kind |-> "dec_word", code |-> register,
                            value |-> ReadWord(cpu, register)]
    /\ OpSpends

\* BIT b,A
BitOp(bit_position) ==
    /\ cpu' = BitTest(cpu, bit_position, cpu.a)
    /\ cpu_last' = [kind |-> "bit", code |-> bit_position, value |-> cpu.a]
    /\ OpSpends

\* SWAP A
SwapOp ==
    /\ cpu' = Swap(cpu)
    /\ cpu_last' = [kind |-> "swap", code |-> 55, value |-> cpu.a]
    /\ OpSpends

\* ADD HL,HL and ADD HL,SP
AddHlOp(operand) ==
    /\ cpu' = AddHlWord(cpu, operand)
    /\ cpu_last' = [kind |-> "add_hl", code |-> operand,
                    value |-> ReadWord(cpu, operand)]
    /\ OpSpends

\* The registers a program has left for the operations
OpAccumulators == {0, 18, 128, 255}
OpWords == {0, 4095, 34952, 65535}
OpFlags == {0, 240}

InitOps ==
    /\ \E a \in OpAccumulators, w \in OpWords, f \in OpFlags :
          cpu = [CpuBoot EXCEPT !.a = a, !.hl = w, !.sp = w, !.f = f]
    /\ memory = MemoryBoot
    /\ ppu = PpuBoot
    /\ debt = 0
    /\ cpu_locked = FALSE
    /\ cpu_last = NoRun
    /\ prog_dots = 0
    /\ ppu_hist = NoHist
    /\ ppu_runs = 0
    /\ frame_shown = FALSE
    /\ apu = ApuNew

WordRegisters == {"RegHL", "RegSP"}

NextOps ==
    /\ cpu_last.kind # "panic"
    /\ \/ \E register \in WordRegisters, checked \in BOOLEAN :
             IncWordOp(register, checked)
       \/ \E register \in WordRegisters, checked \in BOOLEAN :
             DecWordOp(register, checked)
       \/ \E bit_position \in 0..7 : BitOp(bit_position)
       \/ SwapOp
       \/ \E operand \in WordRegisters : AddHlOp(operand)

SpecOps == InitOps /\ [][NextOps]_vars

\* C35: INC rr leaves (rr + 1) mod 2^16 and DEC rr leaves (rr - 1) mod 2^16
\* in rr, F stays as it is, and a DEC rr right after an INC rr of the same
\* register restores it.
C35_IncDecWord ==
    [][/\ cpu_last'.kind # "panic"
       /\ cpu_last'.kind = "inc_word" =>
             /\ ReadWord(cpu', cpu_last'.code)
                   = (ReadWord(cpu, cpu_last'.code) + 1) % 65536
             /\ cpu'.f = cpu.f
       /\ cpu_last'.kind = "dec_word" =>
             /\ ReadWord(cpu', cpu_last'.code)
                   = (ReadWord(cpu, cpu_last'.code) - 1) % 65536
             /\ cpu'.f = cpu.f
       /\ (/\ cpu_last.kind = "inc_word" /\ cpu_last'.kind = "dec_word"
           /\ cpu_last.code = cpu_last'.code)
             => ReadWord(cpu', cpu_last'.code) = cpu_last.value]_vars

\* C36: BIT b,A sets Z exactly when bit b of A is 0, clears N, sets H and
\* leaves C and A as they were.
C36_BitTest ==
    [][cpu_last'.kind = "bit" =>
          /\ CheckFlag(cpu', FLAG_Z) = (Bit(cpu.a, cpu_last'.code) = 0)
          /\ ~CheckFlag(cpu', FLAG_N)
          /\ CheckFlag(cpu', FLAG_H)
          /\ CheckFlag(cpu', FLAG_C) = CheckFlag(cpu, FLAG_C)
          /\ cpu'.a = cpu.a]_vars

\* C37: SWAP A leaves ((A << 4) | (A >> 4)) & 0xFF in A, sets Z exactly when
\* that is 0, clears N, H and C, and a second SWAP restores A.
C37_SwapNibbles ==
    [][cpu_last'.kind = "swap" =>
          /\ cpu'.a = ((cpu.a * 16) % 256) + (cpu.a \div 16)
          /\ CheckFlag(cpu', FLAG_Z) = (cpu'.a = 0)
          /\ ~CheckFlag(cpu', FLAG_N)
          /\ ~CheckFlag(cpu', FLAG_H)
          /\ ~CheckFlag(cpu', FLAG_C)
          /\ cpu_last.kind = "swap" => cpu'.a = cpu_last.value]_vars

\* C38: ADD HL,rr leaves (HL + rr) mod 2^16 in HL, clears N, sets H to the
\* carry out of bit 11 and C to the carry out of bit 15, and leaves Z.
C38_AddHl ==
    [][cpu_last'.kind = "add_hl" =>
          /\ cpu'.hl = (cpu.hl + cpu_last'.value) % 65536
          /\ ~CheckFlag(cpu', FLAG_N)
          /\ CheckFlag(cpu', FLAG_H)
                = ((cpu.hl % 4096) + (cpu_last'.value % 4096) > 4095)
          /\ CheckFlag(cpu', FLAG_C) = (cpu.hl + cpu_last'.value > 65535)
          /\ CheckFlag(cpu', FLAG_Z) = CheckFlag(cpu, FLAG_Z)]_vars

\* A store of NR14 with bit 7 set
TriggersChannel1 ==
    /\ cpu_last'.kind = "write"
    /\ cpu_last'.code = 65300
    /\ cpu_last'.value >= 128

\* C40: channel 1's to-trigger latch becomes set only in a step that stores
\* NR14 with bit 7 set, and channel 1 becomes active only in such a step or
\* with the latch of such a store still pending.
C40_TriggerOnlyByCpu ==
    [][/\ (/\ ~memory.apu_state.ch1_to_trigger
           /\ memory'.apu_state.ch1_to_trigger) => TriggersChannel1
       /\ (~apu.channel_1_active /\ apu'.channel_1_active)
             => (TriggersChannel1 \/ memory.apu_state.ch1_to_trigger)]_vars

====
